---- MODULE Spec2Model ----
(***************************************************************************)
(* Conversation state machine and ride lifecycle coordinator of the        *)
(* WhatsApp taxi back end (src/src/services/conversation.service.ts, the   *)
(* webhook routes and the operator ride routes).                           *)
(*                                                                         *)
(* Every inbound chat event, provider callback and operator request is an  *)
(* independent async task.  A task is a sequence of steps; a step is the   *)
(* code between two awaited accesses to shared state (a Prisma read or     *)
(* write, or a call to the dispatch provider).  Steps of different tasks   *)
(* interleave freely: the code holds no lock and opens no transaction.     *)
(*                                                                         *)
(* Units: prices are in centavos, distances in tenths of a kilometre,      *)
(* durations in minutes.  One customer (one phone number) is modelled.     *)
(***************************************************************************)
EXTENDS Integers, Sequences, FiniteSets, TLC

VARIABLES
  customer,        \* TRUE once the Customer row of the phone number exists
  convs,           \* Conversation rows, in creation order
  rides,           \* Ride rows, in creation order
  task,            \* the in-flight tasks, one record per slot
  now,             \* the clock: tasks received since the database was created
  budget,          \* tasks the behaviour may still receive
  createCalls,     \* calls made to the provider's createRide
  cancelCalls,     \* calls made to the provider's cancelRide
  issued,          \* provider ride ids handed out by successful createRide calls
  pricing,         \* a call of calculatePrice on its own: its arguments and its result
  lastCompleted    \* the conversation whose ride the last finished task completed, or 0

vars == <<customer, convs, rides, task, now, budget, createCalls, cancelCalls, issued, pricing,
          lastCompleted>>

-----------------------------------------------------------------------------
(* Bounds *)

MaxEvents == 3             \* tasks (chat events, callbacks, operator requests) per behaviour
MaxConcurrentEvents == 2   \* the same, in behaviours whose tasks overlap
MaxDistance10 == 32        \* longest distance priced, in tenths of a kilometre
MaxDurationMin == 9        \* longest duration priced, in minutes
MaxOutageEvents == 5       \* chat events of a behaviour in which the classifier is down

Slots == {1, 2}      \* two tasks can be in flight at once

-----------------------------------------------------------------------------
(* Text: a message is a sequence of characters, so that toLowerCase,       *)
(* includes and length are computed as String.prototype computes them.     *)

Upper == <<"A","B","C","D","E","F","G","H","I","J","K","L","M",
           "N","O","P","Q","R","S","T","U","V","W","X","Y","Z">>
LowerOf == <<"a","b","c","d","e","f","g","h","i","j","k","l","m",
             "n","o","p","q","r","s","t","u","v","w","x","y","z">>

LowerChar(c) ==
  IF \E i \in 1..26 : Upper[i] = c
    THEN LowerOf[CHOOSE i \in 1..26 : Upper[i] = c]
    ELSE c

toLowerCase(s) == [i \in 1..Len(s) |-> LowerChar(s[i])]

includes(s, p) ==
  \E i \in 0..(Len(s) - Len(p)) : \A j \in 1..Len(p) : s[i + j] = p[j]

K_mudar     == <<"m","u","d","a","r">>
K_change    == <<"c","h","a","n","g","e">>
K_origem    == <<"o","r","i","g","e","m">>
K_embarque  == <<"e","m","b","a","r","q","u","e">>
K_partida   == <<"p","a","r","t","i","d","a">>
K_destino   == <<"d","e","s","t","i","n","o">>
K_paraonde  == <<"p","a","r","a"," ","o","n","d","e">>
K_confirm   == <<"c","o","n","f","i","r","m">>
K_sim       == <<"s","i","m">>
K_cancelar  == <<"c","a","n","c","e","l","a","r">>
K_grande    == <<"g","r","a","n","d","e">>
K_confort   == <<"c","o","n","f","o","r","t">>
K_pequeno   == <<"p","e","q","u","e","n","o">>
K_lite      == <<"l","i","t","e">>

B_confirm_ride    == <<"c","o","n","f","i","r","m","_","r","i","d","e">>
B_change_category == <<"c","h","a","n","g","e","_","c","a","t","e","g","o","r","y">>
B_cancel_ride     == <<"c","a","n","c","e","l","_","r","i","d","e">>
B_cat_grande      == <<"c","a","t","_","g","r","a","n","d","e">>
B_cat_confort     == <<"c","a","t","_","c","o","n","f","o","r","t">>
B_cat_pequeno     == <<"c","a","t","_","p","e","q","u","e","n","o">>
B_cat_lite        == <<"c","a","t","_","l","i","t","e">>

(* Inbound chat events.  type and content are what parseWebhookPayload     *)
(* hands to processMessage; for an interactive reply the content carries   *)
(* the tapped button's id and its title.                                   *)
TextMsg(s) ==
  [type |-> "text", body |-> s, buttonId |-> <<>>, buttonTitle |-> <<>>, hasGps |-> FALSE]
ButtonMsg(id, title) ==
  [type |-> "interactive", body |-> <<>>, buttonId |-> id, buttonTitle |-> title, hasGps |-> FALSE]
LocationMsg ==
  [type |-> "location", body |-> <<>>, buttonId |-> <<>>, buttonTitle |-> <<>>, hasGps |-> TRUE]
(* A voice message; body is its transcription, empty when there is none. *)
AudioMsg(transcription) ==
  [type |-> "audio", body |-> transcription, buttonId |-> <<>>, buttonTitle |-> <<>>,
   hasGps |-> FALSE]

Messages ==
  { TextMsg(<<"o","i">>),
    TextMsg(<<"a","s","s","i","m">>),
    TextMsg(<<"R","u","a"," ","9">>),
    TextMsg(<<"m","u","d","a","r">>),
    TextMsg(<<"o","r","i","g","e","m">>),
    TextMsg(<<"d","e","s","t","i","n","o">>),
    TextMsg(<<"g","r","a","n","d","e">>),
    ButtonMsg(B_confirm_ride, <<"C","o","n","f","i","r","m","a","r">>),
    ButtonMsg(B_change_category, <<"A","l","t","e","r","a","r">>),
    ButtonMsg(B_cancel_ride, <<"C","a","n","c","e","l","a","r">>),
    LocationMsg,
    AudioMsg(<<>>) }

NoMsg ==
  [type |-> "none", body |-> <<>>, buttonId |-> <<>>, buttonTitle |-> <<>>, hasGps |-> FALSE]

(* The text processMessage hands to handleState. *)
T_LatLng == <<"L","a","t",":"," ","1",","," ","L","n","g",":"," ","2">>

T_AudioNotTranscribed ==
  <<"[","A","u","d","i","o"," ","n","ã","o"," ","t","r","a","n","s","c","r","i","t","o","]">>

textContent(m) ==
  CASE m.type = "text" -> m.body
    [] m.type = "audio" -> IF m.body # <<>> THEN m.body ELSE T_AudioNotTranscribed
    [] m.type = "location" -> T_LatLng
    [] m.type = "interactive" -> m.buttonTitle
    [] OTHER -> <<>>

(* The classifier's answer: any combination, it is a best-effort external  *)
(* service.  destination is "none" (no destination object), "empty" (a     *)
(* destination object whose text is the empty string) or "addr".           *)
IntentDestinations == {"none", "empty", "addr"}

(* handleState reads only isCancellation of the classifier's answer; the    *)
(* other fields are bound by the handler that reads them.                   *)
NoIntent == [isCancellation |-> FALSE]

-----------------------------------------------------------------------------
(* Conversation context (the JSON blob) and pricing *)

Undefined == -1      \* a numeric field that is absent from the JSON blob

EmptyContext ==
  [origin |-> "none", destination |-> "none", category |-> "none",
   estimatedPrice |-> Undefined, estimatedDistance |-> Undefined,
   estimatedDuration |-> Undefined, flowStarted |-> FALSE]

Categories == {"CARRO_PEQUENO", "CARRO_GRANDE"}

(* A rate table whose per-minute rate is the same for both classes. *)
oneRatePerMinute(category) ==
  CASE category = "CARRO_PEQUENO" ->
         [baseFare |-> 500, pricePerKm |-> 200, pricePerMinute |-> 35, minimumFare |-> 900]
    [] category = "CARRO_GRANDE" ->
         [baseFare |-> 700, pricePerKm |-> 200, pricePerMinute |-> 35, minimumFare |-> 900]

PRICING_RULES(category) ==
  CASE category = "CARRO_PEQUENO" ->
         [baseFare |-> 500, pricePerKm |-> 200, pricePerMinute |-> 35, minimumFare |-> 900]
    [] category = "CARRO_GRANDE" ->
         [baseFare |-> 700, pricePerKm |-> 200, pricePerMinute |-> 55, minimumFare |-> 900]

Max(a, b) == IF a >= b THEN a ELSE b

(* The sum of calculatePrice without its Math.max. *)
calculatedPriceOnly(category, distance10, durationMinutes) ==
  LET rules == IF category \in Categories THEN PRICING_RULES(category)
                                          ELSE PRICING_RULES("CARRO_PEQUENO")
  IN  rules.baseFare + (distance10 * rules.pricePerKm) \div 10
        + durationMinutes * rules.pricePerMinute

(* distance10 is the distance in tenths of a kilometre *)
calculatePrice(category, distance10, durationMinutes) ==
  LET rules == IF category \in Categories THEN PRICING_RULES(category)
                                          ELSE PRICING_RULES("CARRO_PEQUENO")
      calculatedPrice == rules.baseFare + (distance10 * rules.pricePerKm) \div 10
                           + durationMinutes * rules.pricePerMinute
  IN  Max(calculatedPrice, rules.minimumFare)

DefaultDistance10 == 30
DefaultDurationMin == 8

(* The arguments calculatePrice is checked on: the two classes of the rate  *)
(* table and one it does not have, every distance and duration up to the    *)
(* bounds.                                                                   *)
PricedCategories == Categories \cup {"MOTO"}

NoPricing ==
  [category |-> "none", distance10 |-> 0, durationMinutes |-> 0, price |-> Undefined]

PricingInputs ==
  [category : PricedCategories, distance10 : 0..MaxDistance10,
   durationMinutes : 0..MaxDurationMin, price : {Undefined}]

(* What getPriceQuote can answer: a failure, or a quotation with the        *)
(* provider's own price (valorEstimado).                                    *)
QuoteResults ==
  { [success |-> FALSE, distanciaKm |-> 0, tempoEstimado |-> 0, valorEstimado |-> 0],
    [success |-> TRUE, distanciaKm |-> 32, tempoEstimado |-> 9, valorEstimado |-> 2500],
    [success |-> TRUE, distanciaKm |-> 32, tempoEstimado |-> 9, valorEstimado |-> 100],
    [success |-> TRUE, distanciaKm |-> 0, tempoEstimado |-> 9, valorEstimado |-> 100] }

-----------------------------------------------------------------------------
(* Rides and provider status codes *)

TerminalStatuses == {"COMPLETED", "CANCELLED", "FAILED"}

ActiveRideStatuses ==
  {"DISTRIBUTING", "AWAITING_ACCEPT", "ACCEPTED", "DRIVER_ARRIVING", "DRIVER_ARRIVED", "IN_PROGRESS"}

mapStatus(machineStatus) ==
  CASE machineStatus = "D" -> "DISTRIBUTING"
    [] machineStatus = "G" -> "AWAITING_ACCEPT"
    [] machineStatus = "P" -> "PENDING"
    [] machineStatus = "N" -> "NO_DRIVER"
    [] machineStatus = "A" -> "ACCEPTED"
    [] machineStatus = "E" -> "IN_PROGRESS"
    [] machineStatus = "F" -> "COMPLETED"
    [] machineStatus = "C" -> "CANCELLED"
    [] machineStatus = "R" -> "AWAITING_PAYMENT"
    [] OTHER -> "REQUESTED"

mapMachineStatus(status) ==
  CASE status = "D" -> "DISTRIBUTING"
    [] status = "G" -> "AWAITING_ACCEPT"
    [] status = "P" -> "PENDING"
    [] status = "N" -> "NO_DRIVER"
    [] status = "A" -> "ACCEPTED"
    [] status = "E" -> "IN_PROGRESS"
    [] status = "F" -> "COMPLETED"
    [] status = "C" -> "CANCELLED"
    [] status = "R" -> "AWAITING_PAYMENT"
    [] OTHER -> "REQUESTED"

(* Status codes the provider sends in the modelled behaviours; "X" is a     *)
(* code the mapping does not know.                                          *)
CallbackCodes == {"N", "A", "E", "F", "C", "X"}

UnknownId == 99      \* a provider ride id no createRide call returned

-----------------------------------------------------------------------------
(* Tasks *)

NoCallback == [corrida_id |-> 0, status |-> ""]
NoRideSnapshot == [acceptedAt |-> 0, startedAt |-> 0, completedAt |-> 0]

IdleTask ==
  [pc |-> "idle", kind |-> "none", msg |-> NoMsg, intent |-> NoIntent,
   convId |-> 0, state |-> "none", context |-> EmptyContext, handler |-> "none",
   out |-> <<>>, rideId |-> 0, ride |-> NoRideSnapshot, data |-> NoCallback,
   rideResult |-> "none", corridaId |-> 0, cancelResult |-> "none", threw |-> FALSE,
   locationRequestAge |-> "none", responses |-> 0, classifier |-> "none"]

Busy(t) == task[t].pc # "idle"

(* A task may start in slot t when the slots below it are taken. *)
CanStart(t) ==
  /\ task[t].pc = "idle"
  /\ budget > 0
  /\ \A s \in Slots : s < t => Busy(s)

Send(t, m) == Append(task[t].out, m)

(* The handler returns: its locals go out of scope.  What stays is what    *)
(* the task was (the event's cancellation intent, the state and the ride    *)
(* row it read), which rows it touched and what it sent.                    *)
Return(T) ==
  [IdleTask EXCEPT !.pc = "done", !.kind = T.kind, !.convId = T.convId, !.state = T.state,
                   !.intent = [isCancellation |-> T.intent.isCancellation],
                   !.handler = T.handler, !.out = T.out, !.rideId = T.rideId,
                   !.ride = T.ride, !.data = T.data, !.rideResult = T.rideResult,
                   !.cancelResult = T.cancelResult, !.threw = T.threw,
                   !.locationRequestAge = T.locationRequestAge, !.responses = T.responses]

-----------------------------------------------------------------------------
(* extractRideIntent.  The classifier call either answers, and its answer  *)
(* is passed on as it comes, or fails (the call throws, or its output is    *)
(* not the JSON expected): the catch then builds the intent from keywords,  *)
(* with hasOrigin and hasDestination false.                                 *)

Digits == {"0", "1", "2", "3", "4", "5", "6", "7", "8", "9"}

(* \w of a regular expression, on lower-cased text *)
isWordChar(c) ==
  \/ \E i \in 1..26 : LowerOf[i] = c
  \/ c \in Digits
  \/ c = "_"

(* /\bword\b/ matches the text *)
hasWord(s, word) ==
  \E i \in 0..(Len(s) - Len(word)) :
    /\ \A j \in 1..Len(word) : s[i + j] = word[j]
    /\ i = 0 \/ ~isWordChar(s[i])
    /\ i + Len(word) = Len(s) \/ ~isWordChar(s[i + Len(word) + 1])

W_sim      == <<"s","i","m">>
W_confirmo == <<"c","o","n","f","i","r","m","o">>
W_ok       == <<"o","k">>
W_pode     == <<"p","o","d","e">>
W_certo    == <<"c","e","r","t","o">>
W_isso     == <<"i","s","s","o">>
W_confirma == <<"c","o","n","f","i","r","m","a">>
W_nao      == <<"n","ã","o">>
W_cancela  == <<"c","a","n","c","e","l","a">>
W_desisto  == <<"d","e","s","i","s","t","o">>
W_pare     == <<"p","a","r","e">>
W_para     == <<"p","a","r","a">>

keywordIsConfirmation(message) ==
  \E word \in {W_sim, W_confirmo, W_ok, W_pode, W_certo, W_isso, W_confirma} :
    hasWord(toLowerCase(message), word)

keywordIsCancellation(message) ==
  \E word \in {W_nao, W_cancela, W_desisto, W_pare, W_para} :
    hasWord(toLowerCase(message), word)

ClassifierOutcomes == {"answered", "fallback"}

(* The messages the event of task t can turn out to carry: after a          *)
(* fallback, those whose keywords give the isCancellation it was given.     *)
Heard(t) ==
  IF task[t].classifier = "fallback"
    THEN {m \in Messages :
            keywordIsCancellation(textContent(m)) = task[t].intent.isCancellation}
    ELSE Messages

(* intent.destination as the handlers of task t can see it *)
ClassifiedDestinations(t) ==
  IF task[t].classifier = "fallback" THEN {"none"} ELSE IntentDestinations

(* intent.isConfirmation as handleConfirmation can see it *)
ClassifiedConfirmations(t, m) ==
  IF task[t].classifier = "fallback"
    THEN {keywordIsConfirmation(textContent(m))}
    ELSE BOOLEAN

-----------------------------------------------------------------------------
(* processMessage / getOrCreateConversation *)

(* A request of the chat platform reaches POST /whatsapp.  responses      *)
(* counts the HTTP responses the route has sent for it.                    *)
ReceiveMessage(t) ==
  /\ CanStart(t)
  /\ task' = [task EXCEPT ![t] =
                [IdleTask EXCEPT !.pc = "acknowledge", !.kind = "request"]]
  /\ now' = now + 1
  /\ budget' = budget - 1
  /\ UNCHANGED <<customer, convs, rides, createCalls, cancelCalls, issued, pricing, lastCompleted>>

(* A route that goes on to the processing without answering. *)
AcknowledgeNothing(t) ==
  /\ task[t].pc = "acknowledge"
  /\ task' = [task EXCEPT ![t].pc = "parsePayload"]
  /\ UNCHANGED <<customer, convs, rides, now, budget, createCalls, cancelCalls, issued, pricing, lastCompleted>>

(* res.status(200).send('OK'), the first statement of the route *)
Acknowledge(t) ==
  /\ task[t].pc = "acknowledge"
  /\ task' = [task EXCEPT ![t].pc = "parsePayload", ![t].responses = @ + 1]
  /\ UNCHANGED <<customer, convs, rides, now, budget, createCalls, cancelCalls, issued, pricing, lastCompleted>>

(* loadAllCredentials, which logs its own failures, parseWebhookPayload and *)
(* the loop over the messages: the request carries a message, which goes to *)
(* processMessage, or delivery statuses only, which are logged.             *)
ParsePayload(t) ==
  /\ task[t].pc = "parsePayload"
  /\ \/ task' = [task EXCEPT ![t].pc = "findCustomer", ![t].kind = "message"]
     \/ task' = [task EXCEPT ![t] = Return([task[t] EXCEPT !.pc = "done"])]
  /\ UNCHANGED <<customer, convs, rides, now, budget, createCalls, cancelCalls, issued, pricing, lastCompleted>>

(* parseWebhookPayload throws on a payload it cannot read. *)
FailParse(t) ==
  /\ task[t].pc = "parsePayload"
  /\ task' = [task EXCEPT ![t].pc = "routeCatch"]
  /\ UNCHANGED <<customer, convs, rides, now, budget, createCalls, cancelCalls, issued, pricing, lastCompleted>>

(* The catch of the route: if (!res.headersSent) res.status(200).send(...) *)
RouteCatch(t) ==
  /\ task[t].pc = "routeCatch"
  /\ task' = [task EXCEPT ![t] =
                Return([task[t] EXCEPT !.pc = "done",
                          !.responses = IF task[t].responses = 0 THEN 1 ELSE task[t].responses])]
  /\ UNCHANGED <<customer, convs, rides, now, budget, createCalls, cancelCalls, issued, pricing, lastCompleted>>

(* prisma.customer.findUnique *)
FindCustomer(t) ==
  /\ task[t].pc = "findCustomer"
  /\ task' = [task EXCEPT ![t].pc = IF customer THEN "findConversation" ELSE "createCustomer"]
  /\ UNCHANGED <<customer, convs, rides, now, budget, createCalls, cancelCalls, issued, pricing, lastCompleted>>

(* prisma.customer.create; phoneNumber is a unique key, so the create of a  *)
(* task that lost the race throws and processMessage's catch apologises.    *)
CreateCustomer(t) ==
  /\ task[t].pc = "createCustomer"
  /\ IF customer
       THEN /\ task' = [task EXCEPT ![t] = Return([task[t] EXCEPT !.pc = "done", !.out = Send(t, "apology")])]
            /\ UNCHANGED customer
       ELSE /\ customer' = TRUE
            /\ task' = [task EXCEPT ![t].pc = "findConversation"]
  /\ UNCHANGED <<convs, rides, now, budget, createCalls, cancelCalls, issued, pricing, lastCompleted>>

ActiveConversations == {i \in 1..Len(convs) : convs[i].isActive}

(* A lookup that answers the active conversation whatever its age. *)
FindConversationOfAnyAge(t) ==
  /\ task[t].pc = "findConversation"
  /\ IF ActiveConversations = {}
       THEN task' = [task EXCEPT ![t].pc = "createConversation"]
       ELSE \E i \in ActiveConversations :
              task' = [task EXCEPT ![t].pc = "saveIncoming", ![t].convId = i,
                                   ![t].state = convs[i].state,
                                   ![t].context = convs[i].context]
  /\ UNCHANGED <<customer, convs, rides, now, budget, createCalls, cancelCalls, issued, pricing, lastCompleted>>

(* prisma.conversation.findFirst({customerId, isActive: true}) and the      *)
(* 30-minute test on its lastMessageAt                                      *)
FindConversation(t) ==
  /\ task[t].pc = "findConversation"
  /\ IF ActiveConversations = {}
       THEN task' = [task EXCEPT ![t].pc = "createConversation"]
       ELSE \E i \in ActiveConversations :
              IF convs[i].stale
                THEN task' = [task EXCEPT ![t].pc = "closeConversation", ![t].convId = i]
                ELSE task' = [task EXCEPT ![t].pc = "saveIncoming", ![t].convId = i,
                                          ![t].state = convs[i].state,
                                          ![t].context = convs[i].context]
  /\ UNCHANGED <<customer, convs, rides, now, budget, createCalls, cancelCalls, issued, pricing, lastCompleted>>

(* prisma.conversation.update({isActive: false}) of the timed-out one *)
CloseConversation(t) ==
  /\ task[t].pc = "closeConversation"
  /\ convs' = [convs EXCEPT ![task[t].convId].isActive = FALSE]
  /\ task' = [task EXCEPT ![t].pc = "createConversation", ![t].convId = 0]
  /\ UNCHANGED <<customer, rides, now, budget, createCalls, cancelCalls, issued, pricing, lastCompleted>>

NewConversation ==
  [state |-> "GREETING", context |-> EmptyContext, isActive |-> TRUE, stale |-> FALSE]

(* prisma.conversation.create *)
CreateConversation(t) ==
  /\ task[t].pc = "createConversation"
  /\ convs' = Append(convs, NewConversation)
  /\ task' = [task EXCEPT ![t].pc = "saveIncoming", ![t].convId = Len(convs) + 1,
                          ![t].state = "GREETING", ![t].context = EmptyContext]
  /\ UNCHANGED <<customer, rides, now, budget, createCalls, cancelCalls, issued, pricing, lastCompleted>>

(* A classifier whose failure is not caught: extractRideIntent raises, and *)
(* the catch of processMessage apologises.                                  *)
SaveIncomingRaising(t) ==
  /\ task[t].pc = "saveIncoming"
  /\ convs' = [convs EXCEPT ![task[t].convId].stale = FALSE]
  /\ \E outcome \in ClassifierOutcomes, isCancellation \in BOOLEAN :
       IF outcome = "fallback"
         THEN task' = [task EXCEPT ![t] =
                         [Return([task[t] EXCEPT !.pc = "done", !.out = Send(t, "apology")])
                            EXCEPT !.classifier = outcome]]
         ELSE task' = [task EXCEPT ![t].pc = "handleState", ![t].classifier = outcome,
                                   ![t].intent = [isCancellation |-> isCancellation]]
  /\ UNCHANGED <<customer, rides, now, budget, createCalls, cancelCalls, issued, pricing, lastCompleted>>

(* The switch on messageType (the first use of the event's content),       *)
(* message.create, conversation.update({lastMessageAt: now}), markAsRead,   *)
(* then handleState's call of the classifier, which answers or falls back   *)
(* on the keywords of the message                                           *)
SaveIncoming(t) ==
  /\ task[t].pc = "saveIncoming"
  /\ convs' = [convs EXCEPT ![task[t].convId].stale = FALSE]
  /\ \E outcome \in ClassifierOutcomes :
       \E isCancellation \in (IF outcome = "fallback"
                                THEN {keywordIsCancellation(textContent(m)) : m \in Messages}
                                ELSE BOOLEAN) :
         task' = [task EXCEPT ![t].pc = "handleState", ![t].classifier = outcome,
                              ![t].intent = [isCancellation |-> isCancellation]]
  /\ UNCHANGED <<customer, rides, now, budget, createCalls, cancelCalls, issued, pricing, lastCompleted>>

(* Thirty minutes pass without a message: every lastMessageAt is now older  *)
(* than the timeout.                                                        *)
ThirtyMinutesPass ==
  /\ \A t \in Slots : ~Busy(t)
  /\ \E i \in 1..Len(convs) : convs[i].isActive /\ ~convs[i].stale
  /\ convs' = [i \in 1..Len(convs) |-> [convs[i] EXCEPT !.stale = TRUE]]
  /\ UNCHANGED <<customer, rides, task, now, budget, createCalls, cancelCalls, issued, pricing, lastCompleted>>

-----------------------------------------------------------------------------
(* handleState and the per-state handlers *)

(* The switch of handleState alone, without the test that precedes it: the  *)
(* dispatch the cancellation override exists to prevent.                    *)
stateHandlerOnly(state, intent) ==
  CASE state = "GREETING" -> "handleGreeting"
    [] state = "REQUESTING_LOCATION" -> "handleLocationRequest"
    [] state = "AWAITING_ORIGIN" -> "handleOriginInput"
    [] state = "CONFIRMING_ORIGIN" -> "handleOriginConfirmation"
    [] state = "AWAITING_DESTINATION" -> "handleDestinationInput"
    [] state = "AWAITING_CATEGORY" -> "handleCategorySelection"
    [] state \in {"SHOWING_PRICE", "AWAITING_CONFIRMATION"} -> "handleConfirmation"
    [] state \in {"RIDE_CREATED", "RIDE_IN_PROGRESS"} -> "handleActiveRide"
    [] OTHER -> "handleGreeting"

(* A dispatch that retries the ride creation from ERROR. *)
retryFromError(state, intent) ==
  IF intent.isCancellation /\ state # "GREETING"
    THEN "handleCancellation"
    ELSE IF state = "ERROR" THEN "handleConfirmation"
                            ELSE stateHandlerOnly(state, intent)

(* Which handler handleState runs for a conversation state and an intent. *)
handleState(state, intent) ==
  IF intent.isCancellation /\ state # "GREETING"
    THEN "handleCancellation"
    ELSE CASE state = "GREETING" -> "handleGreeting"
           [] state = "REQUESTING_LOCATION" -> "handleLocationRequest"
           [] state = "AWAITING_ORIGIN" -> "handleOriginInput"
           [] state = "CONFIRMING_ORIGIN" -> "handleOriginConfirmation"
           [] state = "AWAITING_DESTINATION" -> "handleDestinationInput"
           [] state = "AWAITING_CATEGORY" -> "handleCategorySelection"
           [] state \in {"SHOWING_PRICE", "AWAITING_CONFIRMATION"} -> "handleConfirmation"
           [] state \in {"RIDE_CREATED", "RIDE_IN_PROGRESS"} -> "handleActiveRide"
           [] OTHER -> "handleGreeting"

(* The task record once handleState has chosen handler h. *)
Ran(T, h) == [T EXCEPT !.handler = h]

Dispatched(t, h) ==
  /\ task[t].pc = "handleState"
  /\ handleState(task[t].state, task[t].intent) = h

updateConversation(id, state, context) ==
  [convs EXCEPT ![id].state = state, ![id].context = context]

(* messageType === 'location' && metadata.latitude && metadata.longitude *)
isGps(m) == m.type = "location" /\ m.hasGps

(* handleGreeting, also called by handleActiveRide with an empty context *)
HandleGreeting(t) ==
  /\ \/ Dispatched(t, "handleGreeting")
     \/ task[t].pc = "freshGreeting"
  /\ \E intentDestination \in ClassifiedDestinations(t) :
     LET T == task[t]
         c0 == IF T.pc = "freshGreeting" THEN EmptyContext ELSE T.context
         c1 == [c0 EXCEPT !.flowStarted = TRUE]
         c2 == IF intentDestination # "none"
                 THEN [c1 EXCEPT !.destination = intentDestination]
                 ELSE c1
     IN  /\ convs' = updateConversation(T.convId, "REQUESTING_LOCATION", c2)
         /\ task' = [task EXCEPT ![t] =
                              Return([Ran(T, IF T.pc = "handleState" THEN "handleGreeting" ELSE T.handler) EXCEPT !.pc = "done",
                                 !.context = c2,
                                 !.out = T.out \o <<"greeting", "locationRequest">>])]
  /\ UNCHANGED <<customer, rides, now, budget, createCalls, cancelCalls, issued, pricing, lastCompleted>>

(* A location handler that never takes the destination as known. *)
destinationNeverKnown(context) ==
  FALSE

(* if (context.destination): a destination object is stored, whatever its  *)
(* text                                                                     *)
destinationKnown(context) ==
  context.destination # "none"

(* How long ago the location request was sent when the message arrives:   *)
(* Date.now() - context.locationRequestTime is within 30 s or over it.      *)
LocationRequestAges == {"within30s", "over30s"}

(* The handleLocationRequest of the earlier version (src/unnamed/part_008): *)
(* a text longer than five characters is taken as the origin, typed by the  *)
(* customer.                                                                *)
HandleLocationRequestAcceptingText(t) ==
  /\ Dispatched(t, "handleLocationRequest")
  /\ \E m \in Heard(t), age \in LocationRequestAges :
     LET T == task[t]
         message == textContent(m)
         c1 == [T.context EXCEPT !.origin = IF isGps(m) THEN "gps" ELSE "typed"]
         R == [Ran(T, "handleLocationRequest") EXCEPT !.pc = "done", !.locationRequestAge = age]
     IN  IF isGps(m) \/ Len(message) > 5
           THEN IF destinationKnown(T.context)
                  THEN /\ convs' = updateConversation(T.convId, "AWAITING_CATEGORY", c1)
                       /\ task' = [task EXCEPT ![t] =
                              Return([R EXCEPT !.out = Send(t, "categoryButtons")])]
                  ELSE /\ convs' = updateConversation(T.convId, "AWAITING_DESTINATION", c1)
                       /\ task' = [task EXCEPT ![t] =
                              Return([R EXCEPT !.out = Send(t, "askDestination")])]
           ELSE /\ task' = [task EXCEPT ![t] =
                              Return([R EXCEPT !.out = Send(t, "locationRequest")])]
                /\ UNCHANGED convs
  /\ UNCHANGED <<customer, rides, now, budget, createCalls, cancelCalls, issued, pricing, lastCompleted>>

(* handleLocationRequest.  The origin "gps" is the reverse-geocoded address *)
(* with its coordinates and isAutoDetected: true.  The age of the location  *)
(* request is an input the handler does not read.                           *)
HandleLocationRequest(t) ==
  /\ Dispatched(t, "handleLocationRequest")
  /\ \E m \in Heard(t), intentDestination \in ClassifiedDestinations(t), age \in LocationRequestAges :
     LET T == task[t]
         message == textContent(m)
         c1 == [T.context EXCEPT !.origin = "gps"]
         c2 == IF Len(message) > 3 /\ intentDestination # "none"
                 THEN [T.context EXCEPT !.destination = intentDestination]
                 ELSE T.context
         R == [Ran(T, "handleLocationRequest") EXCEPT !.pc = "done", !.locationRequestAge = age]
     IN  IF isGps(m)
           THEN IF destinationKnown(T.context)
                  THEN /\ convs' = updateConversation(T.convId, "AWAITING_CATEGORY", c1)
                       /\ task' = [task EXCEPT ![t] =
                              Return([R EXCEPT !.context = c1,
                                 !.out = Send(t, "categoryButtons")])]
                  ELSE /\ convs' = updateConversation(T.convId, "AWAITING_DESTINATION", c1)
                       /\ task' = [task EXCEPT ![t] =
                              Return([R EXCEPT !.context = c1,
                                 !.out = Send(t, "askDestination")])]
           ELSE /\ task' = [task EXCEPT ![t] =
                              Return([R EXCEPT !.context = c2,
                                 !.out = Send(t, "locationRequest")])]
                /\ UNCHANGED convs
  /\ UNCHANGED <<customer, rides, now, budget, createCalls, cancelCalls, issued, pricing, lastCompleted>>

(* handleOriginInput *)
HandleOriginInput(t) ==
  /\ Dispatched(t, "handleOriginInput")
  /\ \E m \in Heard(t) :
     LET T == task[t]
         c1 == [T.context EXCEPT !.origin = "gps"]
     IN  IF isGps(m)
           THEN /\ convs' = updateConversation(T.convId, "AWAITING_DESTINATION", c1)
                /\ task' = [task EXCEPT ![t] =
                              Return([Ran(T, "handleOriginInput") EXCEPT !.pc = "done",
                                 !.context = c1,
                                 !.out = Send(t, "askDestination")])]
           ELSE /\ task' = [task EXCEPT ![t] =
                              Return([Ran(T, "handleOriginInput") EXCEPT !.pc = "done",
                                 !.out = Send(t, "locationRequest")])]
                /\ UNCHANGED convs
  /\ UNCHANGED <<customer, rides, now, budget, createCalls, cancelCalls, issued, pricing, lastCompleted>>

(* handleDestinationInput.  The message handled stays with the returned    *)
(* task.                                                                    *)
HandleDestinationInput(t) ==
  /\ Dispatched(t, "handleDestinationInput")
  /\ \E m \in Heard(t), intentDestination \in ClassifiedDestinations(t) :
     LET T == task[t]
         message == textContent(m)
         accepted == isGps(m) \/ intentDestination # "none" \/ Len(message) > 3
         destination == IF isGps(m) THEN "gps"
                        ELSE IF intentDestination # "none" THEN intentDestination
                        ELSE "addr"
         c1 == [T.context EXCEPT !.destination = destination]
     IN  IF accepted
           THEN /\ convs' = updateConversation(T.convId, "AWAITING_CATEGORY", c1)
                /\ task' = [task EXCEPT ![t] =
                              [Return([Ran(T, "handleDestinationInput") EXCEPT !.pc = "done",
                                 !.out = Send(t, "categoryButtons")]) EXCEPT !.msg = m]]
           ELSE /\ task' = [task EXCEPT ![t] =
                              [Return([Ran(T, "handleDestinationInput") EXCEPT !.pc = "done",
                                 !.out = Send(t, "destinationPrompt")]) EXCEPT !.msg = m]]
                /\ UNCHANGED convs
  /\ UNCHANGED <<customer, rides, now, budget, createCalls, cancelCalls, issued, pricing, lastCompleted>>

(* A selection whose default is the large car. *)
largeCarByDefault(message) ==
  LET lowerMessage == toLowerCase(message)
  IN  IF \/ includes(lowerMessage, K_pequeno) \/ includes(lowerMessage, K_lite)
         \/ message = B_cat_pequeno \/ message = B_cat_lite
        THEN "CARRO_PEQUENO"
        ELSE "CARRO_GRANDE"

(* The vehicle class handleCategorySelection reads from the message. *)
selectCategory(message) ==
  LET lowerMessage == toLowerCase(message)
  IN  IF \/ includes(lowerMessage, K_grande) \/ includes(lowerMessage, K_confort)
         \/ message = B_cat_grande \/ message = B_cat_confort
        THEN "CARRO_GRANDE"
        ELSE "CARRO_PEQUENO"

(* The quote's distance as it comes, without a default. *)
quotedDistanceOnly(quote) ==
  quote.distanciaKm

(* distanceKm: quote.cotacao.distanciaKm || 3.0 of a successful quote, else *)
(* the default                                                              *)
quotedDistance(quote) ==
  IF quote.success /\ quote.distanciaKm # 0 THEN quote.distanciaKm ELSE DefaultDistance10

(* durationMin: quote.cotacao.tempoEstimado || 8 of a successful quote, else *)
(* the default                                                              *)
quotedDuration(quote) ==
  IF quote.success /\ quote.tempoEstimado # 0 THEN quote.tempoEstimado ELSE DefaultDurationMin

(* The price the earlier version of handleCategorySelection stored: the    *)
(* provider's own, or 25.00 when the quote failed (src/unnamed/part_008).   *)
providerPrice(category, quote) ==
  IF quote.success THEN quote.valorEstimado ELSE 2500

(* context.estimatedPrice: calculatePrice of the distance and the duration *)
(* used, raised to the minimum fare                                         *)
priceOfQuote(category, quote) ==
  LET price == calculatePrice(category, quotedDistance(quote), quotedDuration(quote))
      rules == PRICING_RULES(category)
  IN  IF price < rules.minimumFare THEN rules.minimumFare ELSE price

(* handleCategorySelection: the quote's distance and duration are used,    *)
(* its price is not.  The message handled stays with the returned task.     *)
HandleCategorySelection(t) ==
  /\ Dispatched(t, "handleCategorySelection")
  /\ \E m \in Heard(t), quote \in QuoteResults :
       LET T == task[t]
           category == selectCategory(textContent(m))
           distanceKm == quotedDistance(quote)
           durationMin == quotedDuration(quote)
           c1 == [T.context EXCEPT !.category = category,
                                   !.estimatedDistance = distanceKm,
                                   !.estimatedDuration = durationMin,
                                   !.estimatedPrice = priceOfQuote(category, quote)]
       IN  /\ convs' = updateConversation(T.convId, "AWAITING_CONFIRMATION", c1)
           /\ task' = [task EXCEPT ![t] =
                              [Return([Ran(T, "handleCategorySelection") EXCEPT !.pc = "done",
                                 !.out = Send(t, "summaryButtons")]) EXCEPT !.msg = m]]
  /\ UNCHANGED <<customer, rides, now, budget, createCalls, cancelCalls, issued, pricing, lastCompleted>>

(* A handler whose last branch books the ride: whatever it does not         *)
(* recognise counts as a confirmation.                                      *)
confirmByDefault(message, intent) ==
  LET lowerMessage == toLowerCase(message)
  IN  IF \/ includes(lowerMessage, K_mudar) \/ includes(lowerMessage, K_change)
         \/ message = B_change_category
        THEN "changeCategory"
      ELSE IF \/ includes(lowerMessage, K_origem) \/ includes(lowerMessage, K_embarque)
              \/ includes(lowerMessage, K_partida)
        THEN "changeOrigin"
      ELSE IF includes(lowerMessage, K_destino) \/ includes(lowerMessage, K_paraonde)
        THEN "changeDestination"
      ELSE IF \/ intent.isCancellation \/ message = B_cancel_ride
              \/ includes(lowerMessage, K_cancelar)
        THEN "cancel"
      ELSE "confirm"

(* The branch handleConfirmation takes, in the order the code tests them. *)
confirmationBranch(message, intent) ==
  LET lowerMessage == toLowerCase(message)
  IN  IF \/ includes(lowerMessage, K_mudar) \/ includes(lowerMessage, K_change)
         \/ message = B_change_category
        THEN "changeCategory"
      ELSE IF \/ includes(lowerMessage, K_origem) \/ includes(lowerMessage, K_embarque)
              \/ includes(lowerMessage, K_partida)
        THEN "changeOrigin"
      ELSE IF includes(lowerMessage, K_destino) \/ includes(lowerMessage, K_paraonde)
        THEN "changeDestination"
      ELSE IF \/ intent.isConfirmation \/ includes(lowerMessage, K_confirm)
              \/ includes(lowerMessage, K_sim) \/ message = B_confirm_ride
        THEN "confirm"
      ELSE IF \/ intent.isCancellation \/ message = B_cancel_ride
              \/ includes(lowerMessage, K_cancelar)
        THEN "cancel"
      ELSE "other"

(* handleConfirmation.  The message handled and the classifier's answer     *)
(* stay with the task.                                                      *)
HandleConfirmation(t) ==
  /\ Dispatched(t, "handleConfirmation")
  /\ \E m \in Heard(t) : \E isConfirmation \in ClassifiedConfirmations(t, m) :
     LET T == task[t]
         intent == [isConfirmation |-> isConfirmation, isCancellation |-> T.intent.isCancellation]
         branch == confirmationBranch(textContent(m), intent)
         R == [Ran(T, "handleConfirmation") EXCEPT !.pc = "done"]
     IN  CASE branch = "changeCategory" ->
                /\ convs' = updateConversation(T.convId, "AWAITING_CATEGORY", T.context)
                /\ task' = [task EXCEPT ![t] =
                              [Return([R EXCEPT !.out = Send(t, "categoryButtons")])
                                 EXCEPT !.msg = m, !.intent = intent]]
           [] branch = "changeOrigin" ->
                /\ convs' = updateConversation(T.convId, "AWAITING_ORIGIN", T.context)
                /\ task' = [task EXCEPT ![t] =
                              [Return([R EXCEPT !.out = Send(t, "locationRequest")])
                                 EXCEPT !.msg = m, !.intent = intent]]
           [] branch = "changeDestination" ->
                /\ convs' = updateConversation(T.convId, "AWAITING_DESTINATION", T.context)
                /\ task' = [task EXCEPT ![t] =
                              [Return([R EXCEPT !.out = Send(t, "locationRequest")])
                                 EXCEPT !.msg = m, !.intent = intent]]
           [] branch = "confirm" ->
                /\ task' = [task EXCEPT ![t] =
                              [Ran(T, "handleConfirmation") EXCEPT !.pc = "createRide",
                                 !.msg = m, !.intent = intent]]
                /\ UNCHANGED convs
           [] branch = "cancel" ->
                /\ task' = [task EXCEPT ![t] =
                              [Ran(T, "handleConfirmation") EXCEPT !.pc = "cancellation",
                                 !.msg = m, !.intent = intent]]
                /\ UNCHANGED convs
           [] OTHER ->
                /\ task' = [task EXCEPT ![t] =
                              [Return([R EXCEPT !.out = Send(t, "summaryButtons")])
                                 EXCEPT !.msg = m, !.intent = intent]]
                /\ UNCHANGED convs
  /\ UNCHANGED <<customer, rides, now, budget, createCalls, cancelCalls, issued, pricing, lastCompleted>>

-----------------------------------------------------------------------------
(* createRide *)

NewRide(conversationId, machineRideId, status, price) ==
  [conversationId |-> conversationId, machineRideId |-> machineRideId, status |-> status,
   estimatedPrice |-> price, acceptedAt |-> 0, startedAt |-> 0, completedAt |-> 0,
   cancelledAt |-> 0, events |-> 0]

(* A weaker test, of a missing price only: it lets a price of zero through. *)
missingPrice(context) ==
  context.estimatedPrice = Undefined

(* !context.estimatedPrice || context.estimatedPrice <= 0 *)
invalidPrice(context) ==
  context.estimatedPrice = Undefined \/ context.estimatedPrice = 0 \/ context.estimatedPrice <= 0

(* !context.origin?.address || !context.destination?.address *)
missingAddress(context) ==
  context.origin = "none" \/ context.destination \in {"none", "empty"}

(* createRide up to its first write: the two validations, then CREATING_RIDE *)
CreateRide(t) ==
  /\ task[t].pc = "createRide"
  /\ LET T == task[t]
     IN  IF invalidPrice(T.context)
           THEN /\ convs' = updateConversation(T.convId, "AWAITING_CATEGORY", T.context)
                /\ task' = [task EXCEPT ![t] = Return([task[t] EXCEPT !.pc = "done", !.out = Send(t, "priceErrorButtons")])]
         ELSE IF missingAddress(T.context)
           THEN /\ convs' = updateConversation(T.convId, "GREETING", EmptyContext)
                /\ task' = [task EXCEPT ![t] = Return([task[t] EXCEPT !.pc = "done", !.out = Send(t, "startOverButton")])]
         ELSE /\ convs' = updateConversation(T.convId, "CREATING_RIDE", T.context)
              /\ task' = [task EXCEPT ![t].pc = "callProvider", ![t].out = Send(t, "searching")]
  /\ UNCHANGED <<customer, rides, now, budget, createCalls, cancelCalls, issued, pricing, lastCompleted>>

(* machineGlobalService.createRide: success with a ride id, success without *)
(* a corrida object, or a failure (an error answer or a network error, both *)
(* returned as success: false by handleError)                               *)
CallProvider(t) ==
  /\ task[t].pc = "callProvider"
  /\ createCalls' = createCalls + 1
  /\ \E result \in {"created", "createdNoId", "failed"} :
       /\ issued' = IF result = "created" THEN issued + 1 ELSE issued
       /\ task' = [task EXCEPT ![t].pc = "persistRide", ![t].rideResult = result,
                     ![t].corridaId = IF result = "created" THEN issued + 1 ELSE 0]
  /\ UNCHANGED <<customer, convs, rides, now, budget, cancelCalls, pricing, lastCompleted>>

(* The status the earlier version of createRide stored whatever the         *)
(* provider answered (src/unnamed/part_008).                                *)
alwaysDistributing(rideResult) ==
  "DISTRIBUTING"

(* status: rideResult.success ? DISTRIBUTING : FAILED *)
createdStatus(rideResult) ==
  IF rideResult \in {"created", "createdNoId"} THEN "DISTRIBUTING" ELSE "FAILED"

(* A create path that stores a row for the provider's successes only. *)
PersistSuccessfulRide(t) ==
  /\ task[t].pc = "persistRide"
  /\ LET T == task[t]
     IN  IF T.rideResult = "failed"
           THEN /\ task' = [task EXCEPT ![t].pc = "finishCreate", ![t].msg = NoMsg,
                                   ![t].intent = [isCancellation |-> T.intent.isCancellation]]
                /\ UNCHANGED rides
           ELSE /\ rides' = Append(rides, NewRide(T.convId, T.corridaId, "DISTRIBUTING",
                                                  T.context.estimatedPrice))
                /\ task' = [task EXCEPT ![t].pc = "logRideCreated", ![t].rideId = Len(rides) + 1,
                                        ![t].msg = NoMsg,
                                        ![t].intent = [isCancellation |-> T.intent.isCancellation]]
  /\ UNCHANGED <<customer, convs, now, budget, createCalls, cancelCalls, issued, pricing, lastCompleted>>

(* prisma.ride.create; the event's content is not read after it *)
PersistRide(t) ==
  /\ task[t].pc = "persistRide"
  /\ LET T == task[t]
     IN  /\ rides' = Append(rides, NewRide(T.convId, T.corridaId, createdStatus(T.rideResult),
                                           T.context.estimatedPrice))
         /\ task' = [task EXCEPT ![t].pc = "logRideCreated", ![t].rideId = Len(rides) + 1,
                                 ![t].msg = NoMsg,
                                 ![t].intent = [isCancellation |-> T.intent.isCancellation]]
  /\ UNCHANGED <<customer, convs, now, budget, createCalls, cancelCalls, issued, pricing, lastCompleted>>

(* prisma.rideEvent.create *)
LogRideCreated(t) ==
  /\ task[t].pc = "logRideCreated"
  /\ rides' = [rides EXCEPT ![task[t].rideId].events = @ + 1]
  /\ task' = [task EXCEPT ![t].pc = "finishCreate"]
  /\ UNCHANGED <<customer, convs, now, budget, createCalls, cancelCalls, issued, pricing, lastCompleted>>

(* RIDE_CREATED and the confirmation, or ERROR and the retry/cancel buttons *)
FinishCreate(t) ==
  /\ task[t].pc = "finishCreate"
  /\ LET T == task[t]
     IN  IF T.rideResult \in {"created", "createdNoId"}
           THEN /\ convs' = updateConversation(T.convId, "RIDE_CREATED", T.context)
                /\ task' = [task EXCEPT ![t] = Return([task[t] EXCEPT !.pc = "done", !.out = Send(t, "rideConfirmed")])]
           ELSE /\ convs' = updateConversation(T.convId, "ERROR", T.context)
                /\ task' = [task EXCEPT ![t] = Return([task[t] EXCEPT !.pc = "done", !.out = Send(t, "retryCancelButtons")])]
  /\ UNCHANGED <<customer, rides, now, budget, createCalls, cancelCalls, issued, pricing, lastCompleted>>

-----------------------------------------------------------------------------
(* handleActiveRide *)

HandleActiveRide(t) ==
  /\ Dispatched(t, "handleActiveRide")
  /\ LET T == task[t]
         found == {r \in 1..Len(rides) : /\ rides[r].conversationId = T.convId
                                         /\ rides[r].status \in ActiveRideStatuses}
     IN  IF found = {}
           THEN IF T.context.flowStarted
                   /\ (T.context.origin # "none" \/ T.context.destination # "none")
                  THEN task' = [task EXCEPT ![t] =
                              [Ran(T, "handleActiveRide") EXCEPT !.pc = "resumeFlow"]]
                  ELSE task' = [task EXCEPT ![t] =
                              [Ran(T, "handleActiveRide") EXCEPT !.pc = "freshStart"]]
           ELSE task' = [task EXCEPT ![t] =
                              Return([Ran(T, "handleActiveRide") EXCEPT !.pc = "done",
                                 !.out = Send(t, IF T.intent.isCancellation
                                                THEN "confirmCancelButtons" ELSE "rideStatus")])]
  /\ UNCHANGED <<customer, convs, rides, now, budget, createCalls, cancelCalls, issued, pricing, lastCompleted>>

(* no active ride, flow started: continue at the first missing step *)
ResumeFlow(t) ==
  /\ task[t].pc = "resumeFlow"
  /\ LET T == task[t]
     IN  IF T.context.origin = "none"
           THEN /\ convs' = updateConversation(T.convId, "REQUESTING_LOCATION", T.context)
                /\ task' = [task EXCEPT ![t] = Return([task[t] EXCEPT !.pc = "done", !.out = Send(t, "locationRequest")])]
         ELSE IF T.context.destination = "none"
           THEN /\ convs' = updateConversation(T.convId, "AWAITING_DESTINATION", T.context)
                /\ task' = [task EXCEPT ![t] = Return([task[t] EXCEPT !.pc = "done", !.out = Send(t, "askDestination")])]
         ELSE /\ convs' = updateConversation(T.convId, "AWAITING_CATEGORY", T.context)
              /\ task' = [task EXCEPT ![t] = Return([task[t] EXCEPT !.pc = "done", !.out = Send(t, "categoryButtons")])]
  /\ UNCHANGED <<customer, rides, now, budget, createCalls, cancelCalls, issued, pricing, lastCompleted>>

(* no active ride, nothing to resume: GREETING with an empty context, then  *)
(* handleGreeting                                                           *)
FreshStart(t) ==
  /\ task[t].pc = "freshStart"
  /\ convs' = updateConversation(task[t].convId, "GREETING", EmptyContext)
  /\ task' = [task EXCEPT ![t].pc = "freshGreeting"]
  /\ UNCHANGED <<customer, rides, now, budget, createCalls, cancelCalls, issued, pricing, lastCompleted>>

-----------------------------------------------------------------------------
(* handleCancellation *)

(* The same query without its status filter: any ride of the conversation. *)
ridesOf(conversationId) ==
  {r \in 1..Len(rides) : rides[r].conversationId = conversationId}

(* The rides prisma.ride.findFirst can answer: those of the conversation     *)
(* whose status is not in [COMPLETED, CANCELLED, FAILED].                    *)
openRides(conversationId) ==
  {r \in 1..Len(rides) : /\ rides[r].conversationId = conversationId
                         /\ rides[r].status \notin TerminalStatuses}

(* handleCancellation up to its first write *)
HandleCancellation(t) ==
  /\ \/ Dispatched(t, "handleCancellation")
     \/ task[t].pc = "cancellation"
  /\ LET T == task[t]
         h == IF T.pc = "handleState" THEN "handleCancellation" ELSE T.handler
         found == openRides(T.convId)
     IN  \/ /\ found = {}
            /\ task' = [task EXCEPT ![t] =
                              [Ran(T, h) EXCEPT !.pc = "resetConversation"]]
         \/ \E r \in found :
              IF rides[r].machineRideId # 0
                THEN task' = [task EXCEPT ![t] =
                              [Ran(T, h) EXCEPT !.pc = "cancelRide",
                                 !.rideId = r]]
                ELSE task' = [task EXCEPT ![t] =
                              [Ran(T, h) EXCEPT !.pc = "resetConversation"]]
  /\ UNCHANGED <<customer, convs, rides, now, budget, createCalls, cancelCalls, issued, pricing, lastCompleted>>

(* What machineGlobalService.cancelRide can answer: the provider's answer,  *)
(* or success: false from handleError for an error answer or a network      *)
(* error.  It does not throw.                                               *)
CancelResults == {"cancelled", "failed"}

(* A cancellation that gives up when the provider did not cancel. *)
CancelRideIfProviderDid(t) ==
  /\ task[t].pc = "cancelRide"
  /\ cancelCalls' = cancelCalls + 1
  /\ \E result \in CancelResults :
       IF result = "failed"
         THEN /\ UNCHANGED rides
              /\ task' = [task EXCEPT ![t] =
                           Return([task[t] EXCEPT !.pc = "done", !.cancelResult = result])]
         ELSE /\ rides' = [rides EXCEPT ![task[t].rideId].status = "CANCELLED",
                                        ![task[t].rideId].cancelledAt = now]
              /\ task' = [task EXCEPT ![t].pc = "logCancelled", ![t].cancelResult = result]
  /\ UNCHANGED <<customer, convs, now, budget, createCalls, issued, pricing, lastCompleted>>

(* machineGlobalService.cancelRide, whose answer is not looked at, then     *)
(* prisma.ride.update to CANCELLED                                          *)
CancelRide(t) ==
  /\ task[t].pc = "cancelRide"
  /\ cancelCalls' = cancelCalls + 1
  /\ \E result \in CancelResults :
       task' = [task EXCEPT ![t].pc = "logCancelled", ![t].cancelResult = result]
  /\ rides' = [rides EXCEPT ![task[t].rideId].status = "CANCELLED",
                            ![task[t].rideId].cancelledAt = now]
  /\ UNCHANGED <<customer, convs, now, budget, createCalls, issued, pricing, lastCompleted>>

LogCancelled(t) ==
  /\ task[t].pc = "logCancelled"
  /\ rides' = [rides EXCEPT ![task[t].rideId].events = @ + 1]
  /\ task' = [task EXCEPT ![t].pc = "resetConversation"]
  /\ UNCHANGED <<customer, convs, now, budget, createCalls, cancelCalls, issued, pricing, lastCompleted>>

(* updateConversation(GREETING, {}) *)
ResetConversation(t) ==
  /\ task[t].pc = "resetConversation"
  /\ convs' = updateConversation(task[t].convId, "GREETING", EmptyContext)
  /\ task' = [task EXCEPT ![t].pc = "deactivateConversation"]
  /\ UNCHANGED <<customer, rides, now, budget, createCalls, cancelCalls, issued, pricing, lastCompleted>>

(* conversation.update({isActive: false}) and the cancellation message *)
(* handleCancellation closing the conversation without telling the customer *)
DeactivateConversationSilently(t) ==
  /\ task[t].pc = "deactivateConversation"
  /\ convs' = [convs EXCEPT ![task[t].convId].isActive = FALSE]
  /\ task' = [task EXCEPT ![t] = Return([task[t] EXCEPT !.pc = "done"])]
  /\ UNCHANGED <<customer, rides, now, budget, createCalls, cancelCalls, issued, pricing, lastCompleted>>

DeactivateConversation(t) ==
  /\ task[t].pc = "deactivateConversation"
  /\ convs' = [convs EXCEPT ![task[t].convId].isActive = FALSE]
  /\ task' = [task EXCEPT ![t] = Return([task[t] EXCEPT !.pc = "done", !.out = Send(t, "cancellationMessage")])]
  /\ UNCHANGED <<customer, rides, now, budget, createCalls, cancelCalls, issued, pricing, lastCompleted>>

-----------------------------------------------------------------------------
(* handleMachineWebhook *)

(* What the route passes as corrida_id: an id the provider issued, an id   *)
(* no createRide call returned, or 0 when the payload carries none of       *)
(* corrida_id, id and solicitacao_id.                                       *)
CorridaIds == (0..issued) \cup {UnknownId}

(* The rows prisma.ride.findFirst({where: {machineRideId: id}}) can answer. *)
(* With an id that is undefined the filter is no filter: the query answers  *)
(* any row, unless the client rejects the undefined filter, which the       *)
(* handler's catch logs.                                                    *)
ridesByMachineId(id) ==
  IF id = 0
    THEN 1..Len(rides)
    ELSE {r \in 1..Len(rides) : rides[r].machineRideId = id}

(* A status callback of the provider reaches handleMachineWebhook, which    *)
(* reads the ride: prisma.ride.findFirst({machineRideId}).  An unknown id   *)
(* is logged and dropped.  The callback's status and driver are bound where *)
(* the handler first reads them.                                            *)
ReceiveCallback(t) ==
  /\ CanStart(t)
  /\ \E id \in CorridaIds :
       LET found == ridesByMachineId(id)
           T == [IdleTask EXCEPT !.kind = "callback", !.data = [NoCallback EXCEPT !.corrida_id = id]]
       IN  \/ /\ found = {} \/ id = 0
              /\ task' = [task EXCEPT ![t] = [T EXCEPT !.pc = "done"]]
           \/ \E r \in found :
                task' = [task EXCEPT ![t] =
                           [T EXCEPT !.pc = "updateRide", !.rideId = r,
                              !.convId = rides[r].conversationId,
                              !.ride = [acceptedAt |-> rides[r].acceptedAt,
                                        startedAt |-> rides[r].startedAt,
                                        completedAt |-> rides[r].completedAt]]]
  /\ now' = now + 1
  /\ budget' = budget - 1
  /\ UNCHANGED <<customer, convs, rides, createCalls, cancelCalls, issued, pricing, lastCompleted>>

(* prisma.ride.update: the mapped status, and the three timestamps, each    *)
(* either now or the value read with the ride                               *)
UpdateRide(t) ==
  /\ task[t].pc = "updateRide"
  /\ \E status \in CallbackCodes :
       LET T == task[t]
       IN  /\ rides' = [rides EXCEPT
                ![T.rideId].status = mapStatus(status),
                ![T.rideId].acceptedAt = IF status = "A" THEN now ELSE T.ride.acceptedAt,
                ![T.rideId].startedAt = IF status = "E" THEN now ELSE T.ride.startedAt,
                ![T.rideId].completedAt = IF status = "F" THEN now ELSE T.ride.completedAt]
           /\ task' = [task EXCEPT ![t].pc = "logStatus", ![t].data.status = status]
  /\ UNCHANGED <<customer, convs, now, budget, createCalls, cancelCalls, issued, pricing, lastCompleted>>

LogStatus(t) ==
  /\ task[t].pc = "logStatus"
  /\ rides' = [rides EXCEPT ![task[t].rideId].events = @ + 1]
  /\ task' = [task EXCEPT ![t].pc = "notify"]
  /\ UNCHANGED <<customer, convs, now, budget, createCalls, cancelCalls, issued, pricing, lastCompleted>>

(* A callback handler that tells the customer of every status. *)
NotifyEveryStatus(t) ==
  /\ task[t].pc = "notify"
  /\ task' = [task EXCEPT ![t] =
                Return([task[t] EXCEPT !.pc = "done", !.out = Send(t, "statusNotice")])]
  /\ UNCHANGED <<customer, convs, rides, now, budget, createCalls, cancelCalls, issued, pricing, lastCompleted>>

(* the switch on data.status *)
Notify(t) ==
  /\ task[t].pc = "notify"
  /\ \E motorista \in BOOLEAN :
     LET T == task[t]
     IN  CASE T.data.status = "A" /\ motorista ->
                /\ convs' = updateConversation(T.convId, "RIDE_IN_PROGRESS", EmptyContext)
                /\ task' = [task EXCEPT ![t] = Return([task[t] EXCEPT !.pc = "done", !.out = Send(t, "driverAssigned")])]
           [] T.data.status = "N" ->
                /\ task' = [task EXCEPT ![t] = Return([task[t] EXCEPT !.pc = "done", !.out = Send(t, "noDriverButtons")])]
                /\ UNCHANGED convs
           [] T.data.status = "F" ->
                /\ convs' = updateConversation(T.convId, "RIDE_COMPLETED", EmptyContext)
                /\ task' = [task EXCEPT ![t].pc = "closeCompleted", ![t].out = Send(t, "finalPrice")]
           [] T.data.status = "C" ->
                /\ task' = [task EXCEPT ![t] = Return([task[t] EXCEPT !.pc = "done", !.out = Send(t, "cancelledNotice")])]
                /\ UNCHANGED convs
           [] OTHER ->
                /\ task' = [task EXCEPT ![t] = Return([task[t] EXCEPT !.pc = "done"])]
                /\ UNCHANGED convs
  /\ UNCHANGED <<customer, rides, now, budget, createCalls, cancelCalls, issued, pricing, lastCompleted>>

(* A COMPLETED branch that sets RIDE_COMPLETED and leaves the conversation  *)
(* active.                                                                  *)
KeepCompletedOpen(t) ==
  /\ task[t].pc = "closeCompleted"
  /\ task' = [task EXCEPT ![t] = Return([task[t] EXCEPT !.pc = "done"])]
  /\ UNCHANGED <<customer, convs, rides, now, budget, createCalls, cancelCalls, issued, pricing, lastCompleted>>

(* conversation.update({isActive: false}) after a completed ride *)
CloseCompleted(t) ==
  /\ task[t].pc = "closeCompleted"
  /\ convs' = [convs EXCEPT ![task[t].convId].isActive = FALSE]
  /\ task' = [task EXCEPT ![t] = Return([task[t] EXCEPT !.pc = "done"])]
  /\ UNCHANGED <<customer, rides, now, budget, createCalls, cancelCalls, issued, pricing, lastCompleted>>

-----------------------------------------------------------------------------
(* Operator routes on rides *)

(* POST /:id/cancel: the ride is read by its id *)
OperatorCancel(t) ==
  /\ CanStart(t)
  /\ \E r \in 1..Len(rides) :
       task' = [task EXCEPT ![t] =
                  [IdleTask EXCEPT !.pc = "operatorCancel", !.kind = "operatorCancel",
                                   !.rideId = r]]
  /\ now' = now + 1
  /\ budget' = budget - 1
  /\ UNCHANGED <<customer, convs, rides, createCalls, cancelCalls, issued, pricing, lastCompleted>>

(* provider cancel when the ride has a provider id, then CANCELLED *)
OperatorCancelRide(t) ==
  /\ task[t].pc = "operatorCancel"
  /\ cancelCalls' = IF rides[task[t].rideId].machineRideId # 0 THEN cancelCalls + 1 ELSE cancelCalls
  /\ rides' = [rides EXCEPT ![task[t].rideId].status = "CANCELLED",
                            ![task[t].rideId].cancelledAt = now]
  /\ task' = [task EXCEPT ![t].pc = "operatorLog"]
  /\ UNCHANGED <<customer, convs, now, budget, createCalls, issued, pricing, lastCompleted>>

OperatorLog(t) ==
  /\ task[t].pc = "operatorLog"
  /\ rides' = [rides EXCEPT ![task[t].rideId].events = @ + 1]
  /\ task' = [task EXCEPT ![t] = Return([task[t] EXCEPT !.pc = "done"])]
  /\ UNCHANGED <<customer, convs, now, budget, createCalls, cancelCalls, issued, pricing, lastCompleted>>

(* POST /:id/refresh: the ride is read by its id and must have a provider   *)
(* id; getRideStatus answers a status code or fails                         *)
OperatorRefresh(t) ==
  /\ CanStart(t)
  /\ \E r \in 1..Len(rides) :
       /\ rides[r].machineRideId # 0
       /\ task' = [task EXCEPT ![t] =
                       [IdleTask EXCEPT !.pc = "operatorRefresh", !.kind = "operatorRefresh",
                                        !.rideId = r]]
  /\ now' = now + 1
  /\ budget' = budget - 1
  /\ UNCHANGED <<customer, convs, rides, createCalls, cancelCalls, issued, pricing, lastCompleted>>

OperatorRefreshRide(t) ==
  /\ task[t].pc = "operatorRefresh"
  /\ \E status \in CallbackCodes \cup {"unavailable"} :
       /\ rides' = IF status = "unavailable"
                     THEN rides
                     ELSE [rides EXCEPT ![task[t].rideId].status = mapMachineStatus(status)]
       /\ task' = [task EXCEPT ![t] = Return([task[t] EXCEPT !.pc = "done", !.data.status = status])]
  /\ UNCHANGED <<customer, convs, now, budget, createCalls, cancelCalls, issued, pricing, lastCompleted>>

-----------------------------------------------------------------------------
(* The handler has returned: the slot is free again. *)
Finish(t) ==
  /\ task[t].pc = "done"
  /\ task' = [task EXCEPT ![t] = IdleTask]
  /\ lastCompleted' = IF /\ task[t].kind = "callback" /\ task[t].data.status = "F"
                         /\ task[t].data.corrida_id # 0 /\ task[t].rideId # 0
                        THEN task[t].convId ELSE 0
  /\ UNCHANGED <<customer, convs, rides, now, budget, createCalls, cancelCalls, issued, pricing>>

(* Unexpected failures.  A call the handler awaits (a database write, the   *)
(* classifier, a send's bookkeeping) throws instead of returning.           *)

(* The positions inside the try block of createRide. *)
InCreateTry == {"callProvider", "persistRide", "logRideCreated", "finishCreate"}

(* A processMessage without its catch: the failure is only logged. *)
ThrowUncaught(t) ==
  /\ task[t].kind = "message"
  /\ task[t].pc # "idle"
  /\ ~task[t].threw \/ task[t].pc = "createFailed"
  /\ task' = [task EXCEPT ![t] = Return([task[t] EXCEPT !.pc = "done", !.threw = TRUE])]
  /\ UNCHANGED <<customer, convs, rides, now, budget, createCalls, cancelCalls, issued, pricing, lastCompleted>>

(* The call the task is at throws.  Inside the try block of createRide the  *)
(* failure reaches createRide's catch; anywhere else, the bookkeeping that  *)
(* follows a handler's last send (pc "done") and createRide's catch block   *)
(* included, it reaches the catch of processMessage, which sends the        *)
(* apology.  At "callProvider" the failing call is either the bookkeeping   *)
(* of the "searching" message, before the try, or the provider call in it.  *)
Throw(t) ==
  /\ task[t].kind = "message"
  /\ task[t].pc # "idle"
  /\ ~task[t].threw \/ task[t].pc = "createFailed"
  /\ \/ /\ \/ task[t].pc \in InCreateTry
           \/ task[t].pc = "done" /\ task[t].rideResult # "none"
        /\ task' = [task EXCEPT ![t].pc = "createFailed", ![t].threw = TRUE]
     \/ /\ task[t].pc \notin (InCreateTry \ {"callProvider"})
        /\ ~(task[t].pc = "done" /\ task[t].rideResult # "none")
        /\ task' = [task EXCEPT ![t] =
                     Return([task[t] EXCEPT !.pc = "done", !.threw = TRUE,
                                            !.out = Send(t, "apology")])]
  /\ UNCHANGED <<customer, convs, rides, now, budget, createCalls, cancelCalls, issued, pricing, lastCompleted>>

(* The catch block of createRide: ERROR, stored with the context createRide *)
(* holds (the one it stored with CREATING_RIDE), and the retry/cancel       *)
(* buttons                                                                  *)
CreateFailed(t) ==
  /\ task[t].pc = "createFailed"
  /\ convs' = updateConversation(task[t].convId, "ERROR", convs[task[t].convId].context)
  /\ task' = [task EXCEPT ![t] =
                Return([task[t] EXCEPT !.pc = "done", !.out = Send(t, "unexpectedErrorButtons")])]
  /\ UNCHANGED <<customer, rides, now, budget, createCalls, cancelCalls, issued, pricing, lastCompleted>>

Step(t) ==
  \/ ReceiveMessage(t) \/ Acknowledge(t) \/ ParsePayload(t)
  \/ FindCustomer(t) \/ CreateCustomer(t) \/ FindConversation(t)
  \/ CloseConversation(t) \/ CreateConversation(t) \/ SaveIncoming(t)
  \/ HandleGreeting(t) \/ HandleLocationRequest(t) \/ HandleOriginInput(t)
  \/ HandleDestinationInput(t) \/ HandleCategorySelection(t) \/ HandleConfirmation(t)
  \/ CreateRide(t) \/ CallProvider(t) \/ PersistRide(t) \/ LogRideCreated(t) \/ FinishCreate(t)
  \/ HandleActiveRide(t) \/ ResumeFlow(t) \/ FreshStart(t)
  \/ HandleCancellation(t) \/ CancelRide(t) \/ LogCancelled(t)
  \/ ResetConversation(t) \/ DeactivateConversation(t)
  \/ ReceiveCallback(t) \/ UpdateRide(t) \/ LogStatus(t) \/ Notify(t)
  \/ CloseCompleted(t)
  \/ OperatorCancel(t) \/ OperatorCancelRide(t) \/ OperatorLog(t)
  \/ OperatorRefresh(t) \/ OperatorRefreshRide(t)
  \/ Finish(t)

-----------------------------------------------------------------------------
(* Initial states.  The service keeps nothing in memory between requests:   *)
(* a process starts on whatever the database holds.  Behaviours start on    *)
(* the empty database and on databases earlier requests leave behind: a     *)
(* conversation waiting for its destination, one showing its price summary, *)
(* a booked ride, and a ride a driver accepted (SpecColdStart reaches each   *)
(* of them from the empty database).  The last one is a price summary the   *)
(* earlier version of the service wrote (src/unnamed/part_008), which       *)
(* stored the provider's valorEstimado as it came.                           *)

QuotedContext ==
  [EmptyContext EXCEPT !.origin = "gps", !.destination = "addr",
                       !.category = "CARRO_PEQUENO",
                       !.estimatedDistance = DefaultDistance10,
                       !.estimatedDuration = DefaultDurationMin,
                       !.estimatedPrice = calculatePrice("CARRO_PEQUENO", DefaultDistance10,
                                                         DefaultDurationMin),
                       !.flowStarted = TRUE]

BookedRide == [NewRide(1, 1, "DISTRIBUTING", QuotedContext.estimatedPrice) EXCEPT !.events = 1]

EmptyDatabase ==
  /\ customer = FALSE /\ convs = <<>> /\ rides = <<>>
  /\ createCalls = 0 /\ issued = 0 /\ cancelCalls = 0

(* after a greeting and a shared location *)
AwaitingDestination ==
  /\ customer = TRUE
  /\ convs = <<[NewConversation EXCEPT !.state = "AWAITING_DESTINATION",
                    !.context = [EmptyContext EXCEPT !.origin = "gps", !.flowStarted = TRUE]]>>
  /\ rides = <<>>
  /\ createCalls = 0 /\ issued = 0 /\ cancelCalls = 0

(* after a greeting that names the destination, a shared location and a     *)
(* vehicle class picked while the provider's quote fails                    *)
AwaitingConfirmation ==
  /\ customer = TRUE
  /\ convs = <<[NewConversation EXCEPT !.state = "AWAITING_CONFIRMATION",
                                       !.context = QuotedContext]>>
  /\ rides = <<>>
  /\ createCalls = 0 /\ issued = 0 /\ cancelCalls = 0

(* after the confirmation as well *)
Booked ==
  /\ customer = TRUE
  /\ convs = <<[NewConversation EXCEPT !.state = "RIDE_CREATED", !.context = QuotedContext]>>
  /\ rides = <<BookedRide>>
  /\ createCalls = 1 /\ issued = 1 /\ cancelCalls = 0

(* after the provider's callback "A" with a driver as well *)
DriverAccepted ==
  /\ customer = TRUE
  /\ convs = <<[NewConversation EXCEPT !.state = "RIDE_IN_PROGRESS"]>>
  /\ rides = <<[BookedRide EXCEPT !.status = "ACCEPTED", !.acceptedAt = now, !.events = 2]>>
  /\ createCalls = 1 /\ issued = 1 /\ cancelCalls = 0

(* The price summary of the earlier version: context.estimatedPrice is       *)
(* quote.cotacao.valorEstimado, which the provider may leave out or send as *)
(* zero.                                                                     *)
LegacyAwaitingConfirmation ==
  /\ customer = TRUE
  /\ \E valorEstimado \in {Undefined, 0} :
       convs = <<[NewConversation EXCEPT !.state = "AWAITING_CONFIRMATION",
                     !.context = [QuotedContext EXCEPT !.estimatedPrice = valorEstimado]]>>
  /\ rides = <<>>
  /\ createCalls = 0 /\ issued = 0 /\ cancelCalls = 0

Databases ==
  \/ now = 0 /\ EmptyDatabase
  \/ now = 2 /\ AwaitingDestination
  \/ now = 3 /\ AwaitingConfirmation
  \/ now = 3 /\ LegacyAwaitingConfirmation
  \/ now = 4 /\ Booked
  \/ now = 5 /\ DriverAccepted

Init ==
  /\ task = [t \in Slots |-> IdleTask]
  /\ pricing = NoPricing
  /\ lastCompleted = 0
  /\ budget = MaxEvents
  /\ Databases

(* Tasks handled one after the other: only the first slot is used. *)
Next == ThirtyMinutesPass \/ Step(1)

Spec == Init /\ [][Next]_vars

(* Tasks handled concurrently.  The webhook routes answer 200 and run the   *)
(* handler without any lock, so the handlers of two requests interleave at  *)
(* every await.                                                             *)
InitConcurrent ==
  /\ task = [t \in Slots |-> IdleTask]
  /\ pricing = NoPricing
  /\ lastCompleted = 0
  /\ budget = MaxConcurrentEvents
  /\ Databases

NextConcurrent == ThirtyMinutesPass \/ \E t \in Slots : Step(t)

SpecConcurrent == InitConcurrent /\ [][NextConcurrent]_vars

(* The empty database only, with a larger budget: it reaches the initial   *)
(* databases this version of the service writes.                            *)
InitColdStart ==
  /\ task = [t \in Slots |-> IdleTask]
  /\ pricing = NoPricing
  /\ lastCompleted = 0
  /\ budget = MaxEvents + MaxConcurrentEvents
  /\ now = 0 /\ EmptyDatabase

SpecColdStart == InitColdStart /\ [][Next]_vars

(* Tasks handled one after the other, any of whose awaited calls may throw. *)
NextFailing == Next \/ Throw(1) \/ CreateFailed(1) \/ FailParse(1) \/ RouteCatch(1)

SpecFailing == Init /\ [][NextFailing]_vars

(* A classifier outage: chat events handled one after the other from the   *)
(* empty database, every classifier call failing, so that every intent is   *)
(* the keyword fallback's.  The steps are those of a first booking and of    *)
(* its cancellation before the ride exists.                                  *)
InitOutage ==
  /\ task = [t \in Slots |-> IdleTask]
  /\ pricing = NoPricing
  /\ lastCompleted = 0
  /\ budget = MaxOutageEvents
  /\ now = 0 /\ EmptyDatabase

SaveIncomingDuringOutage(t) ==
  /\ SaveIncoming(t)
  /\ task'[t].classifier = "fallback"

NextOutage ==
  \/ ReceiveMessage(1) \/ Acknowledge(1) \/ ParsePayload(1)
  \/ FindCustomer(1) \/ CreateCustomer(1) \/ FindConversation(1) \/ CreateConversation(1)
  \/ SaveIncomingDuringOutage(1)
  \/ HandleGreeting(1) \/ HandleLocationRequest(1) \/ HandleDestinationInput(1)
  \/ HandleCategorySelection(1) \/ HandleConfirmation(1)
  \/ CreateRide(1) \/ CallProvider(1) \/ PersistRide(1) \/ LogRideCreated(1) \/ FinishCreate(1)
  \/ HandleCancellation(1) \/ ResetConversation(1) \/ DeactivateConversation(1)
  \/ Finish(1)

SpecOutage == InitOutage /\ [][NextOutage]_vars

(* calculatePrice on its own: the arguments are drawn at the start, the     *)
(* one step calls the function.                                             *)
InitPricing ==
  /\ task = [t \in Slots |-> IdleTask]
  /\ budget = 0
  /\ now = 0 /\ EmptyDatabase
  /\ pricing \in PricingInputs
  /\ lastCompleted = 0

ApplyCalculatePrice ==
  /\ pricing.category # "none"
  /\ pricing.price = Undefined
  /\ pricing' = [pricing EXCEPT !.price = calculatePrice(pricing.category, pricing.distance10,
                                                         pricing.durationMinutes)]
  /\ UNCHANGED <<customer, convs, rides, task, now, budget, createCalls, cancelCalls, issued,
                 lastCompleted>>

NextPricing == ApplyCalculatePrice

SpecPricing == InitPricing /\ [][NextPricing]_vars

-----------------------------------------------------------------------------
(* Ride creation *)

(* The event a task handles carries an explicit confirmation: the          *)
(* classifier's isConfirmation, or the tap of the confirm_ride button.      *)
explicitConfirmation(T) ==
  \/ T.intent.isConfirmation
  \/ T.msg.type = "interactive" /\ T.msg.buttonId = B_confirm_ride

(* C1: the provider's createRide is called, and a Ride row created, only   *)
(* while handling an event that was received in AWAITING_CONFIRMATION and   *)
(* carries an explicit confirmation; no other input creates a ride.         *)
C1_RideOnlyOnExplicitConfirmation ==
  \A t \in Slots :
    task[t].pc = "persistRide" =>
      /\ task[t].state = "AWAITING_CONFIRMATION"
      /\ explicitConfirmation(task[t])

(* C2: of two events of one conversation that are both received while it   *)
(* is in AWAITING_CONFIRMATION and handled concurrently, at most one calls  *)
(* the provider's createRide and at most one creates a Ride row.            *)
C2_OneRidePerConfirmation ==
  \A t1, t2 \in Slots :
    (/\ t1 # t2
     /\ task[t1].kind = "message" /\ task[t2].kind = "message"
     /\ task[t1].convId = task[t2].convId
     /\ task[t1].state = "AWAITING_CONFIRMATION"
     /\ task[t2].state = "AWAITING_CONFIRMATION")
    => /\ ~(task[t1].rideResult # "none" /\ task[t2].rideResult # "none")
       /\ ~(/\ task[t1].rideResult # "none" /\ task[t1].rideId # 0
            /\ task[t2].rideResult # "none" /\ task[t2].rideId # 0)

(* C3: when a callback "A" (accepted) and a callback "F" (completed) of    *)
(* the same ride are handled concurrently (both read the Ride row before    *)
(* either writes it), the ride ends COMPLETED with acceptedAt and           *)
(* completedAt both set.                                                    *)
C3_AcceptedAndCompleted ==
  \A t1, t2 \in Slots :
    (/\ task[t1].kind = "callback" /\ task[t2].kind = "callback"
     /\ task[t1].pc = "done" /\ task[t2].pc = "done"
     /\ task[t1].rideId # 0 /\ task[t1].rideId = task[t2].rideId
     /\ task[t1].data.status = "A" /\ task[t2].data.status = "F"
     /\ task[t1].ride = task[t2].ride)
    => LET ride == rides[task[t1].rideId]
       IN  /\ ride.status = "COMPLETED"
           /\ ride.acceptedAt # 0
           /\ ride.completedAt # 0

(* C4: once a ride's status is COMPLETED, CANCELLED or FAILED, no step of  *)
(* a callback, a customer cancellation, an operator cancel or an operator   *)
(* refresh changes it.                                                      *)
C4_TerminalIsFinal ==
  [][\A r \in 1..Len(rides) :
       rides[r].status \in TerminalStatuses => rides'[r].status = rides[r].status]_vars

(* C5: the customer has at most one Conversation with isActive = true, in  *)
(* every reachable state.                                                   *)
C5_OneActiveConversation ==
  Cardinality(ActiveConversations) <= 1

(* C6: an event whose intent has isCancellation is handled, in every state *)
(* other than GREETING, by the cancellation handler and not by the state's  *)
(* own handler; in GREETING it is handled by the greeting handler.          *)
C6_CancellationOverride ==
  \A t \in Slots :
    (task[t].kind = "message" /\ task[t].handler # "none" /\ task[t].intent.isCancellation)
    => IF task[t].state # "GREETING"
         THEN task[t].handler = "handleCancellation"
         ELSE task[t].handler = "handleGreeting"

C6_Witness ==
  \E t \in Slots :
    /\ task[t].pc = "done" /\ task[t].intent.isCancellation
    /\ task[t].state = "AWAITING_CONFIRMATION"
    /\ task[t].handler = "handleCancellation"

(* Every ride of the conversation is terminal. *)
NoOpenRide(conversationId) ==
  \A r \in 1..Len(rides) :
    rides[r].conversationId = conversationId => rides[r].status \in TerminalStatuses

(* The task is about to decide a cancellation, or is past that decision on  *)
(* the way that cancels no ride.                                            *)
DecidingCancellation(T) ==
  /\ T.kind = "message"
  /\ \/ T.pc = "handleState" /\ T.intent.isCancellation /\ T.state # "GREETING"
     \/ T.pc = "cancellation"

CancellingNothing(T) ==
  \/ DecidingCancellation(T)
  \/ T.kind = "message" /\ T.pc \in {"resetConversation", "deactivateConversation"}

ClosedByCancellation ==
  [state |-> "GREETING", context |-> EmptyContext, isActive |-> FALSE, stale |-> FALSE]

(* C7, as stated: while the conversation has no non-terminal ride,          *)
(* handling a cancellation makes no provider cancel call and changes no     *)
(* Ride, RideEvent or Conversation record.                                  *)
C7_CancellationIsNoOp ==
  [][\A t \in Slots :
       (CancellingNothing(task[t]) /\ NoOpenRide(task[t].convId) /\ task'[t] # task[t])
       => /\ cancelCalls' = cancelCalls
          /\ rides' = rides
          /\ convs' = convs]_vars

(* C7, amended: while the conversation has no non-terminal ride, handling   *)
(* a cancellation makes no provider cancel call and changes no Ride or      *)
(* RideEvent, but it resets the conversation to GREETING with an empty      *)
(* context, deactivates it and sends the cancellation message; a            *)
(* conversation closed this way that never had a ride is not changed        *)
(* again, so a second cancellation finds no active conversation and is      *)
(* greeted in a new one.                                                    *)
C7_CancellationWithoutRide ==
  [][/\ \A t \in Slots :
          (CancellingNothing(task[t]) /\ NoOpenRide(task[t].convId) /\ task'[t] # task[t])
          => /\ cancelCalls' = cancelCalls
             /\ rides' = rides
             /\ DecidingCancellation(task[t]) => task'[t].pc = "resetConversation"
             /\ task'[t].pc = "done" =>
                  /\ convs'[task[t].convId] = ClosedByCancellation
                  /\ task'[t].out = <<"cancellationMessage">>
     /\ \A i \in 1..Len(convs) :
          (/\ convs[i].state = "GREETING" /\ ~convs[i].isActive
           /\ \A r \in 1..Len(rides) : rides[r].conversationId # i)
          => /\ convs'[i].state = "GREETING"
             /\ convs'[i].context = convs[i].context
             /\ ~convs'[i].isActive]_vars

(* a second cancellation has been handled: the first closed conversation 1, *)
(* the second was greeted in a new conversation                             *)
C7_Witness ==
  \E t \in Slots :
    /\ task[t].pc = "done" /\ task[t].intent.isCancellation
    /\ task[t].handler = "handleGreeting"
    /\ task[t].convId > 1
    /\ \E i \in 1..Len(convs) :
         /\ i # task[t].convId
         /\ convs[i].state = "GREETING" /\ convs[i].context = EmptyContext
         /\ ~convs[i].isActive
    /\ cancelCalls = 0 /\ rides = <<>>

(* C8: when the provider's createRide fails, a Ride row with status FAILED *)
(* is persisted for the conversation, the conversation's state becomes      *)
(* ERROR, the customer is sent the retry/cancel buttons, and the handler    *)
(* returns without the apology of processMessage's catch.                   *)
C8_ProviderFailure ==
  \A t \in Slots :
    (task[t].pc = "done" /\ task[t].rideResult = "failed")
    => /\ task[t].rideId # 0
       /\ rides[task[t].rideId].status = "FAILED"
       /\ rides[task[t].rideId].conversationId = task[t].convId
       /\ convs[task[t].convId].state = "ERROR"
       /\ task[t].out = <<"searching", "retryCancelButtons">>

C8_Witness ==
  \E t \in Slots :
    /\ task[t].pc = "done" /\ task[t].rideResult = "failed"
    /\ rides[task[t].rideId].status = "FAILED"

(* C9: the create path makes no provider call and creates no Ride row when *)
(* the context's estimatedPrice is missing or not greater than 0, or when   *)
(* the origin or the destination address is missing; it sends a message     *)
(* and sets the conversation to AWAITING_CATEGORY (price) or GREETING        *)
(* (address).  The provider is called only by a task whose context passed   *)
(* both tests.                                                              *)
C9_ValidatedBeforeProvider ==
  [][/\ \A t \in Slots :
          (task[t].pc = "createRide" /\ task'[t] # task[t])
          => LET c == task[t].context
                 id == task[t].convId
             IN  IF ~(c.estimatedPrice > 0)
                   THEN /\ createCalls' = createCalls /\ rides' = rides
                        /\ task'[t].pc = "done" /\ task'[t].rideResult = "none"
                        /\ convs'[id].state = "AWAITING_CATEGORY"
                        /\ task'[t].out = <<"priceErrorButtons">>
                 ELSE IF c.origin = "none" \/ c.destination \in {"none", "empty"}
                   THEN /\ createCalls' = createCalls /\ rides' = rides
                        /\ task'[t].pc = "done" /\ task'[t].rideResult = "none"
                        /\ convs'[id].state = "GREETING"
                        /\ task'[t].out = <<"startOverButton">>
                 ELSE createCalls' = createCalls /\ rides' = rides
     /\ createCalls' # createCalls =>
          \E t \in Slots :
            /\ task[t].pc = "callProvider"
            /\ task[t].context.estimatedPrice > 0
            /\ task[t].context.origin # "none"
            /\ task[t].context.destination \notin {"none", "empty"}]_vars

(* a confirmation was refused for a destination whose text is empty *)
C9_Witness ==
  \E t \in Slots :
    /\ task[t].pc = "done" /\ task[t].handler = "handleConfirmation"
    /\ task[t].out = <<"startOverButton">>
    /\ convs[task[t].convId].state = "GREETING"
    /\ createCalls = 0 /\ rides = <<>>

(* the same for a price that is missing or zero *)
C9_WitnessPrice ==
  \E t \in Slots :
    /\ task[t].pc = "done" /\ task[t].handler = "handleConfirmation"
    /\ task[t].out = <<"priceErrorButtons">>
    /\ convs[task[t].convId].state = "AWAITING_CATEGORY"
    /\ createCalls = 0 /\ rides = <<>>

-----------------------------------------------------------------------------
(* Provider callbacks *)

(* The callback names no ride of the database: it carries no id, or an id   *)
(* no Ride row has.                                                         *)
matchesNoRide(id) ==
  \/ id = 0
  \/ \A r \in 1..Len(rides) : rides[r].machineRideId # id

(* C11: a provider callback whose ride id matches no local Ride changes    *)
(* nothing: no step of its handler writes a Ride or a RideEvent, changes a  *)
(* conversation or sends a message.                                         *)
C11_UnknownCallbackDropped ==
  [][\A t \in Slots :
       (/\ task[t].kind = "callback"
        /\ matchesNoRide(task[t].data.corrida_id)
        /\ task'[t] # task[t])
       => /\ rides' = rides
          /\ convs' = convs
          /\ task'[t].out = <<>>]_vars

(* C12: acceptedAt, startedAt and completedAt of a ride are each written   *)
(* once, by the first callback with the corresponding status: a timestamp   *)
(* that is set is not changed by a later callback.                          *)
C12_TimestampsSetOnce ==
  [][\A r \in 1..Len(rides) :
       /\ rides[r].acceptedAt # 0 => rides'[r].acceptedAt = rides[r].acceptedAt
       /\ rides[r].startedAt # 0 => rides'[r].startedAt = rides[r].startedAt
       /\ rides[r].completedAt # 0 => rides'[r].completedAt = rides[r].completedAt]_vars

-----------------------------------------------------------------------------
(* Pricing *)

(* C13: for every class, distance and duration, calculatePrice returns at  *)
(* least the class's minimum fare, and for a class the table does not have  *)
(* at least the minimum fare of CARRO_PEQUENO.                              *)
C13_PriceAtLeastMinimumFare ==
  pricing.price # Undefined =>
    pricing.price >= (IF pricing.category \in Categories
                        THEN PRICING_RULES(pricing.category).minimumFare
                        ELSE PRICING_RULES("CARRO_PEQUENO").minimumFare)

(* a ride of no length: the sum is the base fare, the price the minimum fare *)
C13_Witness ==
  /\ pricing.category = "CARRO_GRANDE"
  /\ pricing.distance10 = 0 /\ pricing.durationMinutes = 0
  /\ pricing.price = 900

(* C14: calculatePrice(class, d, t) is                                     *)
(* max(baseFare + d * pricePerKm + t * pricePerMinute, minimumFare) with    *)
(* the rates 5.00 / 2.00 / 0.35 / 9.00 for CARRO_PEQUENO and                *)
(* 7.00 / 2.00 / 0.55 / 9.00 for CARRO_GRANDE (in centavos, d in tenths of  *)
(* a kilometre); CARRO_PEQUENO with 3.2 km and 9 min gives 14.55.           *)
C14_PriceFormula ==
  pricing.price # Undefined =>
    LET d == pricing.distance10
        t == pricing.durationMinutes
    IN  /\ pricing.category = "CARRO_PEQUENO" =>
             pricing.price = Max(500 + 20 * d + 35 * t, 900)
        /\ pricing.category = "CARRO_GRANDE" =>
             pricing.price = Max(700 + 20 * d + 55 * t, 900)
        /\ (pricing.category = "CARRO_PEQUENO" /\ d = 32 /\ t = 9) =>
             pricing.price = 1455

C14_Witness ==
  /\ pricing.category = "CARRO_PEQUENO"
  /\ pricing.distance10 = 32 /\ pricing.durationMinutes = 9
  /\ pricing.price = 1455

C16_CancellationCancelsEveryRide ==
  \A t \in Slots :
    (task[t].pc = "done" /\ task[t].handler = "handleCancellation") =>
      /\ \A r \in 1..Len(rides) :
           rides[r].conversationId = task[t].convId =>
             rides[r].status \in TerminalStatuses
      /\ task[t].rideId # 0 =>
           /\ rides[task[t].rideId].status = "CANCELLED"
           /\ rides[task[t].rideId].cancelledAt # 0

(* C17: when the provider's cancelRide fails, the cancellation path still   *)
(* sets the local Ride to CANCELLED, deactivates the conversation and sends *)
(* the cancellation confirmation.                                           *)
C17_FailedProviderCancel ==
  \A t \in Slots :
    (/\ task[t].pc = "done"
     /\ task[t].handler = "handleCancellation"
     /\ task[t].cancelResult = "failed") =>
      /\ rides[task[t].rideId].status = "CANCELLED"
      /\ rides[task[t].rideId].cancelledAt # 0
      /\ ~convs[task[t].convId].isActive
      /\ task[t].out = <<"cancellationMessage">>

C17_Witness ==
  \E t \in Slots :
    /\ task[t].pc = "done"
    /\ task[t].handler = "handleCancellation"
    /\ task[t].cancelResult = "failed"
    /\ rides[task[t].rideId].machineRideId # 0

(* C18: when a ride has been made CANCELLED, by the customer's              *)
(* cancellation, by a provider CANCELLED callback or by the operator's      *)
(* cancel, the conversation that owns the ride is inactive once the         *)
(* handler has returned.                                                    *)
C18_CancelledRideClosesConversation ==
  \A t \in Slots :
    (/\ task[t].pc = "done"
     /\ task[t].rideId # 0
     /\ \/ task[t].handler = "handleCancellation"
        \/ task[t].kind = "callback" /\ task[t].data.status = "C"
        \/ task[t].kind = "operatorCancel"
     /\ rides[task[t].rideId].status = "CANCELLED") =>
      ~convs[rides[task[t].rideId].conversationId].isActive

(* The COMPLETED callback of a known ride has returned. *)
CompletedHandled(T) ==
  /\ T.pc = "done" /\ T.kind = "callback" /\ T.data.status = "F"
  /\ T.data.corrida_id # 0 /\ T.rideId # 0

(* The step in which getOrCreateConversation answers the conversation of    *)
(* the first message after a COMPLETED callback.                            *)
NextMessageGetsConversation(t) ==
  /\ lastCompleted # 0
  /\ task[t].kind = "message"
  /\ task[t].pc \in {"findConversation", "createConversation"}
  /\ task'[t].pc = "saveIncoming"

(* The conversation the message is handled in was created for it. *)
FreshConversation(t) ==
  /\ task'[t].convId = Len(convs) + 1
  /\ Len(convs') = Len(convs) + 1
  /\ convs'[task'[t].convId].state = "GREETING"
  /\ convs'[task'[t].convId].isActive
  /\ task'[t].state = "GREETING"

C20_AcceptedNotifiesCustomer ==
  \A t \in Slots :
    (/\ task[t].pc = "done" /\ task[t].kind = "callback"
     /\ task[t].data.status = "A"
     /\ task[t].data.corrida_id # 0 /\ task[t].rideId # 0) =>
      /\ task[t].out = <<"driverAssigned">>
      /\ convs[task[t].convId].state = "RIDE_IN_PROGRESS"

(* C21: an inbound message for a customer whose active conversation has     *)
(* been idle for more than 30 minutes deactivates that conversation and is  *)
(* handled in a new conversation in GREETING with an empty context; an      *)
(* active conversation idle for less is reused with its state and context.  *)
C21_TimeoutStartsFresh ==
  [][\A t \in Slots :
       /\ (task[t].pc = "findConversation" /\ task'[t] # task[t]) =>
            \/ /\ ActiveConversations = {}
               /\ task'[t].pc = "createConversation"
            \/ \E i \in ActiveConversations :
                 IF convs[i].stale
                   THEN /\ task'[t].pc = "closeConversation"
                        /\ task'[t].convId = i
                        /\ task'[t].context = EmptyContext
                   ELSE /\ task'[t].pc = "saveIncoming"
                        /\ task'[t].convId = i
                        /\ task'[t].state = convs[i].state
                        /\ task'[t].context = convs[i].context
                        /\ convs' = convs
       /\ (task[t].pc = "closeConversation" /\ task'[t] # task[t]) =>
            /\ ~convs'[task[t].convId].isActive
            /\ task'[t].pc = "createConversation"
            /\ task'[t].context = EmptyContext
       /\ (task[t].pc = "createConversation" /\ task'[t] # task[t]) =>
            /\ Len(convs') = Len(convs) + 1
            /\ \A i \in 1..Len(convs) : convs'[i] = convs[i]
            /\ convs'[Len(convs')].state = "GREETING"
            /\ convs'[Len(convs')].context = EmptyContext
            /\ convs'[Len(convs')].isActive
            /\ task'[t].pc = "saveIncoming"
            /\ task'[t].convId = Len(convs')
            /\ task'[t].state = "GREETING"
            /\ task'[t].context = EmptyContext]_vars

(* a message is about to be handled in a new conversation while the        *)
(* timed-out one, whose context was not empty, is closed                    *)
C21_Witness ==
  \E t \in Slots :
    /\ task[t].kind = "message" /\ task[t].pc = "saveIncoming"
    /\ task[t].convId = Len(convs)
    /\ task[t].state = "GREETING" /\ task[t].context = EmptyContext
    /\ \E i \in 1..Len(convs) :
         /\ i # task[t].convId
         /\ convs[i].stale /\ ~convs[i].isActive
         /\ convs[i].context # EmptyContext

(* Conversation states handleState has a case for, and the two it handles   *)
(* through its default case.                                                *)
StatesWithAHandler ==
  {"GREETING", "REQUESTING_LOCATION", "AWAITING_ORIGIN", "CONFIRMING_ORIGIN",
   "AWAITING_DESTINATION", "AWAITING_CATEGORY", "SHOWING_PRICE", "AWAITING_CONFIRMATION",
   "RIDE_CREATED", "RIDE_IN_PROGRESS", "CREATING_RIDE", "ERROR"}

(* C22: when a handler fails at any step, the customer is sent an apology   *)
(* (the generic one of processMessage, or createRide's "there was a         *)
(* problem" with its retry button), the conversation is left in a state    *)
(* the next message is dispatched on, and a message that does not fail is   *)
(* handled by a handler and answered whatever state a failure left.         *)
C22_FailureIsRecoverable ==
  /\ \A t \in Slots :
       (task[t].kind = "message" /\ task[t].pc = "done") =>
         /\ task[t].threw =>
              /\ task[t].out # <<>>
              /\ task[t].out[Len(task[t].out)] \in {"apology", "unexpectedErrorButtons"}
              /\ task[t].convId # 0 =>
                   convs[task[t].convId].state \in StatesWithAHandler
         /\ ~task[t].threw => task[t].handler # "none" /\ task[t].out # <<>>

(* a message is handled and answered in a conversation that a failure left *)
(* in CREATING_RIDE                                                         *)
C22_Witness ==
  \E t \in Slots :
    /\ task[t].kind = "message" /\ task[t].pc = "done" /\ ~task[t].threw
    /\ task[t].state = "CREATING_RIDE"
    /\ task[t].handler = "handleGreeting"
    /\ task[t].out # <<>>
    /\ convs[task[t].convId].state = "REQUESTING_LOCATION"

(* C23: a provider callback and a chat event on the same conversation are   *)
(* serialized: when the chat event's handler makes its first write to the   *)
(* conversation while a callback for a ride of that conversation is in      *)
(* flight or has just returned, the persisted conversation is still the     *)
(* one the handler read (same state and context, still active), so the      *)
(* write does not overwrite an update of the callback from a stale          *)
(* snapshot.                                                                *)
C23_CallbackAndChatSerialized ==
  [][\A t \in Slots :
       (/\ task[t].kind = "message"
        /\ task[t].pc = "handleState"
        /\ task'[t] # task[t]
        /\ convs' # convs
        /\ \E s \in Slots \ {t} :
             task[s].kind = "callback" /\ task[s].convId = task[t].convId) =>
         /\ convs[task[t].convId].state = task[t].state
         /\ convs[task[t].convId].context = task[t].context
         /\ convs[task[t].convId].isActive]_vars

(* The twelve status values the specification lists. *)
ListedRideStatuses ==
  {"DISTRIBUTING", "AWAITING_ACCEPT", "PENDING", "NO_DRIVER", "ACCEPTED", "DRIVER_ARRIVING",
   "DRIVER_ARRIVED", "IN_PROGRESS", "COMPLETED", "CANCELLED", "AWAITING_PAYMENT", "FAILED"}

(* C24: the status of every Ride is one of the twelve listed values, also   *)
(* after a callback whose status code the mapping does not know.            *)
C24_StatusIsListed ==
  \A r \in 1..Len(rides) : rides[r].status \in ListedRideStatuses

(* C25: GREETING always ends in REQUESTING_LOCATION, with the destination   *)
(* the classifier extracted stored if there is one; in REQUESTING_LOCATION  *)
(* a shared GPS location moves the conversation to AWAITING_CATEGORY when   *)
(* a destination is stored and to AWAITING_DESTINATION when none is.        *)
C25_FastTrack ==
  [][\A t \in Slots :
       /\ (/\ task[t].pc = "handleState" /\ task[t].state = "GREETING"
           /\ task'[t] # task[t]) =>
            /\ task'[t].handler = "handleGreeting"
            /\ convs'[task[t].convId].state = "REQUESTING_LOCATION"
            /\ \/ convs'[task[t].convId].context.destination = task[t].context.destination
               \/ convs'[task[t].convId].context.destination \in IntentDestinations \ {"none"}
       /\ (/\ task[t].pc = "handleState"
           /\ task'[t].handler = "handleLocationRequest"
           /\ convs' # convs) =>
            /\ convs'[task[t].convId].context.origin = "gps"
            /\ convs'[task[t].convId].context.destination = task[t].context.destination
            /\ convs'[task[t].convId].state =
                 IF task[t].context.destination = "none"
                   THEN "AWAITING_DESTINATION" ELSE "AWAITING_CATEGORY"]_vars

(* a conversation that started on the empty database is in                 *)
(* AWAITING_CATEGORY after a greeting and a shared location: the greeting   *)
(* stored the destination                                                   *)
C25_Witness ==
  \E t \in Slots :
    /\ task[t].pc = "done" /\ task[t].handler = "handleLocationRequest"
    /\ task[t].state = "REQUESTING_LOCATION"
    /\ task[t].out = <<"categoryButtons">>
    /\ convs[task[t].convId].state = "AWAITING_CATEGORY"
    /\ convs[task[t].convId].context.destination = "addr"
    /\ convs[task[t].convId].context.origin = "gps"

(* C26: in REQUESTING_LOCATION the origin is set only from a shared GPS     *)
(* location (and is then the auto-detected one); any other input changes    *)
(* neither the origin nor the conversation and is answered with the         *)
(* location request again.                                                  *)
C26_OriginOnlyFromGps ==
  [][\A t \in Slots :
       (/\ task[t].pc = "handleState" /\ task[t].state = "REQUESTING_LOCATION"
        /\ task'[t].handler = "handleLocationRequest") =>
         \/ /\ convs'[task[t].convId].context.origin = "gps"
            /\ task'[t].out \in {<<"categoryButtons">>, <<"askDestination">>}
            /\ convs'[task[t].convId].state \in {"AWAITING_CATEGORY", "AWAITING_DESTINATION"}
         \/ /\ convs' = convs
            /\ task'[t].out = <<"locationRequest">>]_vars

(* a text was answered with the location request and the origin is unset *)
C26_Witness ==
  \E t \in Slots :
    /\ task[t].pc = "done" /\ task[t].handler = "handleLocationRequest"
    /\ task[t].out = <<"locationRequest">>
    /\ convs[task[t].convId].state = "REQUESTING_LOCATION"
    /\ convs[task[t].convId].context.origin = "none"

(* C27: in REQUESTING_LOCATION an input that is not a location and arrives  *)
(* more than 30 seconds after the location request moves the conversation   *)
(* to AWAITING_ORIGIN.                                                      *)
C27_FallbackAfterThirtySeconds ==
  \A t \in Slots :
    (/\ task[t].pc = "done" /\ task[t].handler = "handleLocationRequest"
     /\ task[t].locationRequestAge = "over30s"
     /\ task[t].out \notin {<<"categoryButtons">>, <<"askDestination">>}) =>
      convs[task[t].convId].state = "AWAITING_ORIGIN"

(* The least length of a text handleDestinationInput takes as free text. *)
MinimumDestinationLength == 4

(* C28: in AWAITING_DESTINATION an input that is not a shared location and  *)
(* is shorter than the minimum length is rejected (state and destination    *)
(* unchanged, a re-prompt sent), and every accepted input sets the          *)
(* destination and moves the conversation to AWAITING_CATEGORY.             *)
C28_ShortDestinationRejected ==
  \A t \in Slots :
    (task[t].pc = "done" /\ task[t].handler = "handleDestinationInput") =>
      IF ~isGps(task[t].msg) /\ Len(textContent(task[t].msg)) < MinimumDestinationLength
        THEN /\ task[t].out = <<"destinationPrompt">>
             /\ convs[task[t].convId].state = "AWAITING_DESTINATION"
             /\ convs[task[t].convId].context.destination = "none"
        ELSE /\ task[t].out = <<"categoryButtons">>
             /\ convs[task[t].convId].state = "AWAITING_CATEGORY"
             /\ convs[task[t].convId].context.destination # "none"

(* The message names none of the vehicle classes. *)
unrecognizedCategory(m) ==
  LET text == toLowerCase(textContent(m))
  IN  /\ ~includes(text, K_grande) /\ ~includes(text, K_confort)
      /\ ~includes(text, K_pequeno) /\ ~includes(text, K_lite)

(* C29: every input handleCategorySelection handles in AWAITING_CATEGORY    *)
(* selects a vehicle class (CARRO_PEQUENO when the input names none),       *)
(* stores an estimated price and moves the conversation to                  *)
(* AWAITING_CONFIRMATION; the step calls no createRide and creates no Ride. *)
C29_CategoryNeverBooks ==
  [][\A t \in Slots :
       (/\ task[t].pc = "handleState" /\ task[t].state = "AWAITING_CATEGORY"
        /\ task'[t].handler = "handleCategorySelection") =>
         LET c == convs'[task[t].convId]
         IN  /\ c.state = "AWAITING_CONFIRMATION"
             /\ c.context.category \in Categories
             /\ unrecognizedCategory(task'[t].msg) => c.context.category = "CARRO_PEQUENO"
             /\ c.context.estimatedPrice >= 900
             /\ task'[t].pc = "done"
             /\ task'[t].out = <<"summaryButtons">>
             /\ createCalls' = createCalls
             /\ rides' = rides]_vars

(* an input that names no class was handled in AWAITING_CATEGORY *)
C29_Witness ==
  \E t \in Slots :
    /\ task[t].pc = "done" /\ task[t].handler = "handleCategorySelection"
    /\ task[t].state = "AWAITING_CATEGORY"
    /\ unrecognizedCategory(task[t].msg)
    /\ convs[task[t].convId].state = "AWAITING_CONFIRMATION"
    /\ convs[task[t].convId].context.category = "CARRO_PEQUENO"
    /\ rides = <<>> /\ createCalls = 0

(* C30: when the provider's quote fails, category selection uses 3.0 km    *)
(* and 8 minutes, stores a price that is not below the class's minimum      *)
(* fare, and still moves the conversation to AWAITING_CONFIRMATION.         *)
C30_QuoteFailureDefaults ==
  /\ \A category \in Categories, quote \in QuoteResults :
       ~quote.success =>
         /\ quotedDistance(quote) = 30
         /\ quotedDuration(quote) = 8
         /\ priceOfQuote(category, quote) =
              (IF category = "CARRO_GRANDE" THEN 700 + 600 + 440 ELSE 500 + 600 + 280)
         /\ priceOfQuote(category, quote) >= 900
  /\ \A t \in Slots :
       (task[t].pc = "done" /\ task[t].handler = "handleCategorySelection") =>
         LET c == convs[task[t].convId]
         IN  /\ c.state = "AWAITING_CONFIRMATION"
             /\ c.context.estimatedDistance > 0
             /\ c.context.estimatedDuration > 0
             /\ c.context.estimatedPrice >= 900
             /\ (c.context.estimatedDistance = 30 /\ c.context.estimatedDuration = 8) =>
                  c.context.estimatedPrice =
                    (IF c.context.category = "CARRO_GRANDE" THEN 1740 ELSE 1380)

(* the large car was picked while the quote failed: 3.0 km, 8 min, 17.40 *)
C30_Witness ==
  \E t \in Slots :
    /\ task[t].pc = "done" /\ task[t].handler = "handleCategorySelection"
    /\ convs[task[t].convId].state = "AWAITING_CONFIRMATION"
    /\ convs[task[t].convId].context.category = "CARRO_GRANDE"
    /\ convs[task[t].convId].context.estimatedDistance = 30
    /\ convs[task[t].convId].context.estimatedDuration = 8
    /\ convs[task[t].convId].context.estimatedPrice = 1740

(* The handler of AWAITING_CONFIRMATION recognises none of its five choices *)
(* in the event the task handled: no keyword in the text it was given, no   *)
(* button id, no confirmation and no cancellation from the classifier.      *)
unrecognizedChoice(T) ==
  LET message == textContent(T.msg)
      lowerMessage == toLowerCase(message)
  IN  /\ T.msg.type # "none"
      /\ \A k \in {K_mudar, K_change, K_origem, K_embarque, K_partida, K_destino, K_paraonde,
                   K_confirm, K_sim, K_cancelar} : ~includes(lowerMessage, k)
      /\ message \notin {B_change_category, B_confirm_ride, B_cancel_ride}
      /\ ~T.intent.isConfirmation /\ ~T.intent.isCancellation

(* C31: in AWAITING_CONFIRMATION an input in which the handler recognises   *)
(* none of change-category, change-origin, change-destination, confirm and  *)
(* cancel only re-sends the summary with its choices: the conversation's    *)
(* state, context and isActive and all Ride records stay as they are, no    *)
(* provider call is made, so the same input repeated gives the same result. *)
C31_OtherInputOnlyRedisplays ==
  [][\A t \in Slots :
       (/\ task[t].pc = "handleState" /\ task[t].state = "AWAITING_CONFIRMATION"
        /\ task'[t].handler = "handleConfirmation"
        /\ unrecognizedChoice(task'[t])) =>
         /\ task'[t].pc = "done"
         /\ task'[t].out = <<"summaryButtons">>
         /\ convs' = convs
         /\ convs'[task[t].convId].state = "AWAITING_CONFIRMATION"
         /\ rides' = rides
         /\ createCalls' = createCalls /\ cancelCalls' = cancelCalls]_vars

(* the second of two unrecognised inputs was handled: the conversation that *)
(* showed its summary at time 3 still shows it, unchanged, at time 5        *)
C31_Witness ==
  /\ now = 5 /\ Len(convs) = 1 /\ rides = <<>>
  /\ convs[1].state = "AWAITING_CONFIRMATION" /\ convs[1].context = QuotedContext
  /\ convs[1].isActive
  /\ task[1].pc = "done" /\ task[1].handler = "handleConfirmation"
  /\ task[1].state = "AWAITING_CONFIRMATION"
  /\ unrecognizedChoice(task[1])
  /\ task[1].out = <<"summaryButtons">>

(* The customer tapped the button whose id is given. *)
tapped(T, id) ==
  T.msg.type = "interactive" /\ T.msg.buttonId = id

(* The customer wrote a text that contains the keyword. *)
wrote(T, keyword) ==
  T.msg.type = "text" /\ includes(toLowerCase(T.msg.body), keyword)

(* C32: in AWAITING_CONFIRMATION each offered choice leads to its action,   *)
(* tapped or written: change_category to AWAITING_CATEGORY, a change of     *)
(* origin to AWAITING_ORIGIN, a change of destination to                    *)
(* AWAITING_DESTINATION (the context kept, no ride created), confirm_ride   *)
(* to the create path and cancel_ride to the cancellation.  The classifier  *)
(* is taken not to contradict the tapped button.                            *)
C32_EachChoiceActs ==
  [][\A t \in Slots :
       (/\ task[t].pc = "handleState" /\ task[t].state = "AWAITING_CONFIRMATION"
        /\ task'[t].handler = "handleConfirmation") =>
         LET T == task'[t]
             c == convs'[task[t].convId]
             kept == /\ c.context = convs[task[t].convId].context
                     /\ rides' = rides /\ createCalls' = createCalls
         IN  /\ (tapped(T, B_change_category) /\ ~T.intent.isConfirmation) =>
                  c.state = "AWAITING_CATEGORY" /\ kept
             /\ wrote(T, K_mudar) => c.state = "AWAITING_CATEGORY" /\ kept
             /\ wrote(T, K_origem) => c.state = "AWAITING_ORIGIN" /\ kept
             /\ wrote(T, K_destino) => c.state = "AWAITING_DESTINATION" /\ kept
             /\ tapped(T, B_confirm_ride) => T.pc = "createRide"
             /\ (tapped(T, B_cancel_ride) /\ ~T.intent.isConfirmation) =>
                  T.pc = "cancellation"]_vars

(* The step of the booking flow a context is missing first. *)
firstMissingStep(context) ==
  IF context.origin = "none" THEN "REQUESTING_LOCATION"
  ELSE IF context.destination = "none" THEN "AWAITING_DESTINATION"
  ELSE "AWAITING_CATEGORY"

(* The message task was handled by handleActiveRide, which found no active  *)
(* ride: it sent neither the ride's status nor the cancel question.         *)
FoundNoActiveRide(T) ==
  /\ T.kind = "message" /\ T.pc = "done" /\ T.handler = "handleActiveRide"
  /\ T.state \in {"RIDE_CREATED", "RIDE_IN_PROGRESS"}
  /\ T.out # <<"rideStatus">> /\ T.out # <<"confirmCancelButtons">>

(* C33: in RIDE_CREATED or RIDE_IN_PROGRESS, when no active ride is found   *)
(* for a conversation that booked a ride, the message resumes the flow at   *)
(* the first missing step and no greeting is sent, however the conversation *)
(* reached the state, after an ACCEPTED callback included.                  *)
C33_ResumesWithoutGreeting ==
  \A t \in Slots :
    (/\ FoundNoActiveRide(task[t])
     /\ \E r \in 1..Len(rides) : rides[r].conversationId = task[t].convId) =>
      LET c == convs[task[t].convId]
      IN  /\ \A i \in 1..Len(task[t].out) : task[t].out[i] # "greeting"
          /\ c.state = firstMissingStep(c.context)

(* Status codes whose branch of the callback's switch sends a message. *)
NotifiedCodes == {"A", "N", "F", "C"}

(* C34: a callback for a known ride whose status is none of ACCEPTED,       *)
(* NO_DRIVER, COMPLETED and CANCELLED updates the Ride, appends exactly one *)
(* RideEvent, sends no message and leaves the conversation's state, context *)
(* and isActive as they are.                                                *)
C34_SilentStatusUpdate ==
  [][\A t \in Slots :
       (/\ task[t].kind = "callback" /\ task[t].rideId # 0
        /\ task[t].data.corrida_id # 0
        /\ task'[t].pc # "idle"
        /\ task'[t].data.status \notin NotifiedCodes) =>
         LET r == task[t].rideId
         IN  /\ convs' = convs
             /\ task'[t].out = <<>>
             /\ task[t].pc = "updateRide" =>
                  /\ task'[t].pc = "logStatus"
                  /\ rides'[r].status = (IF task'[t].data.status = "E" THEN "IN_PROGRESS"
                                                                       ELSE "REQUESTED")
                  /\ rides'[r].events = rides[r].events
             /\ task[t].pc = "logStatus" =>
                  /\ task'[t].pc = "notify"
                  /\ rides'[r].events = rides[r].events + 1
                  /\ rides'[r].status = rides[r].status
             /\ task[t].pc = "notify" =>
                  /\ task'[t].pc = "done"
                  /\ rides' = rides]_vars

(* the callback "E" of a booked ride was handled: the ride is IN_PROGRESS,  *)
(* has one more event, and nothing was sent                                 *)
C34_Witness ==
  \E t \in Slots :
    /\ task[t].kind = "callback" /\ task[t].pc = "done"
    /\ task[t].rideId # 0 /\ task[t].data.corrida_id # 0
    /\ task[t].data.status = "E"
    /\ task[t].out = <<>>
    /\ rides[task[t].rideId].status = "IN_PROGRESS"
    /\ rides[task[t].rideId].startedAt = now
    /\ rides[task[t].rideId].events = 2
    /\ convs[task[t].convId].state = "RIDE_CREATED"
    /\ convs[task[t].convId].context = QuotedContext

(* C35: the inbound chat webhook sends its 200 before any processing of the *)
(* request starts and sends exactly one response per request: whatever the  *)
(* processing does afterwards, a failure included, the request has its one  *)
(* response from the first step on.                                         *)
C35_AcknowledgedFirst ==
  \A t \in Slots :
    task[t].kind \in {"request", "message"} =>
      /\ task[t].responses <= 1
      /\ task[t].pc \notin {"idle", "acknowledge"} => task[t].responses = 1

(* the processing of a message failed after the request was answered *)
C35_Witness ==
  \E t \in Slots :
    /\ task[t].kind = "message" /\ task[t].pc = "done" /\ task[t].threw
    /\ task[t].out # <<>>
    /\ task[t].responses = 1

(* C36: when the classifier call fails, extractRideIntent answers with the *)
(* keyword intent, whose hasDestination is false, instead of raising: every *)
(* event is dispatched to a handler and answered, no greeting stores a      *)
(* destination, and the customer still gets from GREETING to a created      *)
(* ride (the witness).                                                      *)
C36_OutageStillDispatches ==
  /\ \A t \in Slots :
       task[t].kind = "message" =>
         /\ task[t].pc = "handleState" =>
              /\ task[t].classifier = "fallback"
              /\ task[t].intent.isCancellation \in
                   {keywordIsCancellation(textContent(m)) : m \in Messages}
         /\ task[t].pc = "done" =>
              /\ task[t].handler # "none"
              /\ task[t].out # <<>>
              /\ \A i \in 1..Len(task[t].out) : task[t].out[i] # "apology"
         /\ (task[t].pc = "done" /\ task[t].handler = "handleGreeting"
                                  /\ task[t].state = "GREETING") =>
              /\ convs[task[t].convId].state = "REQUESTING_LOCATION"
              /\ convs[task[t].convId].context.destination = "none"
  /\ \A i \in 1..Len(convs) : convs[i].context.destination \in {"none", "addr", "gps"}

(* five events after the first greeting the ride is booked, every intent   *)
(* having come from the keywords                                            *)
C36_Witness ==
  /\ now = 5 /\ Len(convs) = 1 /\ Len(rides) = 1
  /\ convs[1].state = "RIDE_CREATED"
  /\ rides[1].status = "DISTRIBUTING" /\ rides[1].machineRideId # 0
  /\ createCalls = 1
  /\ task[1].pc = "done" /\ task[1].handler = "handleConfirmation"
  /\ task[1].out = <<"searching", "rideConfirmed">>

(* C37: while the customer has a ride that is not COMPLETED, CANCELLED or   *)
(* FAILED, the conversation that owns the ride is still the customer's      *)
(* active conversation, so that a status query or a cancellation sent by    *)
(* chat finds the ride, also when more than thirty minutes pass between     *)
(* the customer's messages.                                                 *)
C37_RideKeepsConversationActive ==
  \A r \in 1..Len(rides) :
    rides[r].status \notin TerminalStatuses =>
      convs[rides[r].conversationId].isActive

(* C38: a status callback for a ride id that a successful createRide of    *)
(* the provider returned is matched to its local Ride and applied, also     *)
(* when it is handled between the provider's answer and the creation of     *)
(* the Ride row.                                                            *)
C38_IssuedIdIsMatched ==
  \A t \in Slots :
    (/\ task[t].kind = "callback" /\ task[t].pc = "done"
     /\ task[t].data.corrida_id \in 1..issued) =>
      /\ task[t].rideId # 0
      /\ rides[task[t].rideId].machineRideId = task[t].data.corrida_id
      /\ task[t].data.status # ""

(* Conversation states without a case of their own in handleState's switch *)
(* that a conversation can be left in.                                      *)
StatesWithoutACase == {"ERROR", "CREATING_RIDE", "RIDE_COMPLETED"}

(* C39: from ERROR, CREATING_RIDE or RIDE_COMPLETED an event without a      *)
(* cancellation intent, whatever it carries (a tap on retry_ride too), is   *)
(* handled by the greeting handler: the greeting and the location request   *)
(* are sent, the conversation moves to REQUESTING_LOCATION, and no ride     *)
(* creation is attempted.                                                   *)
C39_ErrorRestartsAtGreeting ==
  [][\A t \in Slots :
       (/\ task[t].kind = "message" /\ task[t].pc = "handleState"
        /\ task[t].state \in StatesWithoutACase
        /\ ~task[t].intent.isCancellation
        /\ task'[t].pc # "handleState" /\ ~task'[t].threw) =>
         /\ task'[t].pc = "done"
         /\ task'[t].handler = "handleGreeting"
         /\ task'[t].out = <<"greeting", "locationRequest">>
         /\ convs'[task[t].convId].state = "REQUESTING_LOCATION"
         /\ convs'[task[t].convId].context.flowStarted
         /\ createCalls' = createCalls
         /\ rides' = rides]_vars

(* the provider failed to create the ride, and the customer's next event    *)
(* was greeted: still one createRide call, one FAILED ride                  *)
C39_Witness ==
  \E t \in Slots :
    /\ task[t].kind = "message" /\ task[t].pc = "done" /\ ~task[t].threw
    /\ task[t].state = "ERROR" /\ task[t].handler = "handleGreeting"
    /\ task[t].out = <<"greeting", "locationRequest">>
    /\ convs[task[t].convId].state = "REQUESTING_LOCATION"
    /\ createCalls = 1
    /\ Len(rides) = 1 /\ rides[1].status = "FAILED"

(* ------------------------------------------------------------------ *)
(* C40: every chat event that processMessage handles ends with at      *)
(* least one message sent to its sender, whatever the state of the     *)
(* conversation and whatever the kind of input; when processing        *)
(* ends before a handler ran, that message is the apology.             *)
C40_EveryEventAnswered ==
  \A t \in Slots :
    (task[t].kind = "message" /\ task[t].pc = "done") =>
      /\ Len(task[t].out) >= 1
      /\ task[t].handler = "none" => task[t].out = <<"apology">>

C40_Witness ==
  \E t \in Slots :
    /\ task[t].kind = "message" /\ task[t].pc = "done"
    /\ task[t].msg.type = "audio"
    /\ task[t].handler = "handleConfirmation"
    /\ Len(task[t].out) >= 1

====
